---- MODULE Spec2Model ----
(***************************************************************************)
(* Model of the GitLab-pipeline-to-Confluence synchroniser.                *)
(*                                                                         *)
(* Text is modelled as a sequence of tokens.  A token is either one of the *)
(* tags "<h2>", "<H2>", "</h2>", "</H2>" or a single character ("a", "A",  *)
(* "b", "z", the newline "\n", ...).  No other token contains "<" or ">",  *)
(* so an occurrence of the literal "<h2>" in the character string is       *)
(* exactly an occurrence of a tag token in the token sequence, and the     *)
(* regular expression of find_and_replace_section can be evaluated token   *)
(* by token.                                                               *)
(***************************************************************************)
EXTENDS Integers, Sequences, FiniteSets, TLC

VARIABLES
    \* ---- a direct call of find_and_replace_section (SpliceSpec) ----
    content,        \* argument `content`
    name,           \* argument `pipeline_name`
    new_section,    \* argument `new_section`
    result,         \* value returned by the call
    again,          \* value returned by a second call on `result`
    phase,          \* "input" | "spliced" | "respliced" | "off"
    \* ---- the document store and the runs of main() (Spec) ----
    store,          \* page id -> [title, content, version] held by Confluence
    runs,           \* number of the current run of main()
    args,           \* parsed command line of the run
    pc,             \* step the run is about to execute, "Done" or "Failed"
    calls,          \* collaborator calls of the run, with the HTTP status answered
    raised,         \* the exception that ended the run
    warnings,       \* warning notices printed by the run
    pipeline_info,  \* locals of main(), under the names of the source
    pipeline_name,
    test_report,
    test_summary,
    recent_pipelines,
    section_content,
    page,
    current_content,
    current_version,
    page_title,
    new_content,
    updates,        \* arguments of each update_page call of the run
    requests,       \* JSON bodies PUT to the document store in the run
    history_count,  \* local of main(): the configured history cap
    \* ---- direct calls of the rendering functions (ChartSpec) ----
    chart_input,    \* argument `data` / `recent_pipelines` of the call
    chart_output,   \* value returned by generate_ascii_bar_chart
    section,        \* value returned by generate_pipeline_section
    cphase,         \* "input" | "charted" | "rendered" | "off"
    \* ---- a direct call of format_duration (DurationSpec) ----
    duration_input, \* argument `seconds` of format_duration
    formatted,      \* value returned by it
    dphase,         \* "input" | "formatted" | "off"
    \* ---- a direct call of a function of models.py or config.py ----
    fn,             \* name of the function called
    fn_args,        \* its arguments
    fn_result,      \* [raised, value]: the exception raised or the value returned
    fn_phase        \* "input" | "returned" | "raised" | "off"

spliceVars == <<content, name, new_section, result, again, phase>>

localVars == <<pipeline_info, pipeline_name, test_report, test_summary, recent_pipelines, section_content, page, current_content, current_version, page_title, new_content>>

runVars == <<store, runs, args, pc, calls, raised, warnings, updates, requests>>

chartVars == <<chart_input, chart_output, section, cphase>>

durationVars == <<duration_input, formatted, dphase>>

renderVars == <<chartVars, durationVars>>

callVars == <<fn, fn_args, fn_result, fn_phase>>

vars == <<spliceVars, runVars, localVars, history_count, renderVars, callVars>>

(***************************************************************************)
(* Bounds of the model.                                                    *)
(***************************************************************************)
MaxDocLen == 5

MaxRuns == 2

\* Longest history list given to the chart, and largest charted value.
MaxChartLen == 3

MaxValue == 3

\* Largest duration given to format_duration, in seconds.
MaxSeconds == 3661

(***************************************************************************)
(* Text helpers.                                                           *)
(***************************************************************************)
NL == "\n"

Min(S) == CHOOSE x \in S : \A y \in S : x <= y

\* All token sequences over alphabet A of length at most n.
SeqsUpTo(A, n) == UNION {[1..k -> A] : k \in 0..n}

\* Mutant: the search without re.IGNORECASE.
Lower_case_sensitive(tok) == tok

\* Case folding applied by re.IGNORECASE to one token.
Lower(tok) ==
    CASE tok = "A" -> "a"
      [] tok = "B" -> "b"
      [] tok = "<H2>" -> "<h2>"
      [] tok = "</H2>" -> "</h2>"
      [] OTHER -> tok

\* The pattern's literal part `<h2>{re.escape(pipeline_name)}</h2>` matches
\* at position i of s (1-based), compared under IGNORECASE.
HeaderAt(s, i, key) ==
    /\ i >= 1
    /\ i + Len(key) + 1 <= Len(s)
    /\ Lower(s[i]) = "<h2>"
    /\ \A k \in 1..Len(key) : Lower(s[i + k]) = Lower(key[k])
    /\ Lower(s[i + Len(key) + 1]) = "</h2>"

\* The pattern's second group `(<h2>|$)` matches at position p: a header
\* opening tag, the end of the string, or (Python's `$` without MULTILINE)
\* the position just before a newline that ends the string.
TerminatorAt(s, p) ==
    \/ p <= Len(s) /\ Lower(s[p]) = "<h2>"
    \/ p = Len(s) + 1
    \/ p = Len(s) /\ s[p] = NL

\* match.end() for a match whose header starts at i: the lazy `.*?` (with
\* DOTALL) stops at the first position where the second group matches, and
\* the second group is part of the match.  Counted in tokens consumed.
MatchEnd(s, i, key) ==
    LET from == i + Len(key) + 2
        p == Min({q \in from..(Len(s) + 1) : TerminatorAt(s, q)})
    IN  IF p <= Len(s) /\ Lower(s[p]) = "<h2>" THEN p ELSE p - 1

\* re.search: the leftmost position where the pattern matches, 0 if none.
\* Once the header matches at i the rest of the pattern always matches
\* (at the latest at the end of the string).
SearchStart(s, key) ==
    LET starts == {i \in 1..Len(s) : HeaderAt(s, i, key)}
    IN  IF starts = {} THEN 0 ELSE Min(starts)

\* Mutant: on a miss the section is put in front of the document.
find_and_replace_section_prepend(s, key, sec) ==
    LET Replace(start, end_pos) ==
            IF end_pos < Len(s)
            THEN SubSeq(s, 1, start - 1) \o sec \o SubSeq(s, end_pos + 1, Len(s))
            ELSE SubSeq(s, 1, start - 1) \o sec
        Splice(start) ==
            IF start # 0
            THEN CHOOSE r \in {Replace(start, end_pos) : end_pos \in {MatchEnd(s, start, key)}} : TRUE
            ELSE sec \o s
    IN  CHOOSE r \in {Splice(start) : start \in {SearchStart(s, key)}} : TRUE

\* `start` is match.start() + 1 (0 when re.search found nothing), `end_pos`
\* is match.end(); each is computed once and bound as a value.
find_and_replace_section(s, key, sec) ==
    LET Replace(start, end_pos) ==
            IF end_pos < Len(s)
            THEN SubSeq(s, 1, start - 1) \o sec \o SubSeq(s, end_pos + 1, Len(s))
            ELSE SubSeq(s, 1, start - 1) \o sec
        Splice(start) ==
            IF start # 0
            THEN CHOOSE r \in {Replace(start, end_pos) : end_pos \in {MatchEnd(s, start, key)}} : TRUE
            ELSE s \o sec
    IN  CHOOSE r \in {Splice(start) : start \in {SearchStart(s, key)}} : TRUE

(***************************************************************************)
(* Values of the untyped raw records (decoded JSON) and of the Python      *)
(* objects built from them.  A value carries its type: None, an int, a str *)
(* (a sequence of one-character tokens) or a dict (a function from keys).  *)
(***************************************************************************)
None == <<"None">>

JInt(n) == <<"int", n>>

JStr(s) == <<"str", s>>

JMap(m) == <<"dict", m>>

IsNone(v) == v[1] = "None"

IsInt(v) == v[1] = "int"

IsStr(v) == v[1] = "str"

IsMap(v) == v[1] = "dict"

\* dict.get(key, default) on a raw record m.
Get(m, k, default) == IF k \in DOMAIN m THEN m[k] ELSE default

\* str(v) as an f-string inserts it, as a sequence of tokens.
Show(v) ==
    CASE IsStr(v) -> v[2]
      [] IsInt(v) -> <<ToString(v[2])>>
      [] OTHER -> <<"None">>

success == <<"s", "u", "c", "c", "e", "s", "s">>

failed == <<"f", "a", "i", "l", "e", "d">>

unknown == <<"u", "n", "k", "n", "o", "w", "n">>

parse_pipeline_info(pipeline) ==
    [id |-> Get(pipeline, "id", JInt(0)),
     name |-> Get(pipeline, "name", JStr(unknown)),
     status |-> Get(pipeline, "status", JStr(<<>>)),
     ref |-> Get(pipeline, "ref", JStr(<<>>)),
     sha |-> Get(pipeline, "sha", JStr(<<>>)),
     web_url |-> Get(pipeline, "web_url", JStr(<<>>)),
     metadata |-> [created_at |-> Get(pipeline, "created_at", None),
                   updated_at |-> Get(pipeline, "updated_at", None),
                   duration |-> Get(pipeline, "duration", None)]]

\* TestSummary(): every count and the time default to 0.
ZeroTestSummary ==
    [total_count |-> JInt(0), success_count |-> JInt(0), failed_count |-> JInt(0),
     skipped_count |-> JInt(0), error_count |-> JInt(0), total_time |-> JInt(0)]

\* parse_test_summary raises AttributeError when the value under "total" is
\* not a dict (`totals.get` on None, a number or a string).
parse_test_summary_raises(report) ==
    ~IsMap(Get(report, "total", JMap(<<>>)))

parse_test_summary(report) ==
    LET totals == Get(report, "total", JMap(<<>>))[2]
    IN  [total_count |-> Get(totals, "count", JInt(0)),
         success_count |-> Get(totals, "success", JInt(0)),
         failed_count |-> Get(totals, "failed", JInt(0)),
         skipped_count |-> Get(totals, "skipped", JInt(0)),
         error_count |-> Get(totals, "error", JInt(0)),
         total_time |-> Get(totals, "time", JInt(0))]

\* PipelineTestCounts(): the value __post_init__ fills in for test_counts.
ZeroTestCounts ==
    [total_count |-> JInt(0), success_count |-> JInt(0),
     failed_count |-> JInt(0), skipped_count |-> JInt(0)]

\* parse_pipelines building the list back to front.
parse_pipelines_reversed(pipelines) ==
    [i \in 1..Len(pipelines) |->
        [id |-> Get(pipelines[Len(pipelines) + 1 - i], "id", JInt(0)),
         status |-> Get(pipelines[Len(pipelines) + 1 - i], "status", JStr(<<>>)),
         ref |-> Get(pipelines[Len(pipelines) + 1 - i], "ref", JStr(<<>>)),
         version |-> JStr(<<"N", "/", "A">>),
         url |-> JStr(<<>>),
         created_at |-> Get(pipelines[Len(pipelines) + 1 - i], "created_at", None),
         duration |-> Get(pipelines[Len(pipelines) + 1 - i], "duration", None),
         web_url |-> Get(pipelines[Len(pipelines) + 1 - i], "web_url", None),
         test_counts |-> ZeroTestCounts]]

parse_pipelines(pipelines) ==
    [i \in 1..Len(pipelines) |->
        [id |-> Get(pipelines[i], "id", JInt(0)),
         status |-> Get(pipelines[i], "status", JStr(<<>>)),
         ref |-> Get(pipelines[i], "ref", JStr(<<>>)),
         version |-> JStr(<<"N", "/", "A">>),
         url |-> JStr(<<>>),
         created_at |-> Get(pipelines[i], "created_at", None),
         duration |-> Get(pipelines[i], "duration", None),
         web_url |-> Get(pipelines[i], "web_url", None),
         test_counts |-> ZeroTestCounts]]

\* A new PipelineHistory with the counts of a test summary attached.
add_test_summary_to_pipeline(pipeline, summary) ==
    [pipeline EXCEPT !.test_counts =
        [total_count |-> summary.total_count, success_count |-> summary.success_count,
         failed_count |-> summary.failed_count, skipped_count |-> summary.skipped_count]]

\* add_version_and_url_to_pipeline building the new entry without passing
\* test_counts on (__post_init__ then fills in zero counts).
add_version_and_url_to_pipeline_drops_counts(pipeline, version, url) ==
    [pipeline EXCEPT !.version = version, !.url = url, !.test_counts = ZeroTestCounts]

\* A new PipelineHistory with version and url replaced.
add_version_and_url_to_pipeline(pipeline, version, url) ==
    [pipeline EXCEPT !.version = version, !.url = url]

(***************************************************************************)
(* Rendering (generator.py).                                               *)
(***************************************************************************)
\* The slice data[:n].
Take(s, n) == SubSeq(s, 1, IF Len(s) < n THEN Len(s) ELSE n)

Repeat(tok, n) == [i \in 1..n |-> tok]

Max(S) == CHOOSE x \in S : \A y \in S : y <= x

\* format(status, "10"): a str is padded with spaces on the right to 10
\* characters and is never cut.
PadStatus(s) == IF Len(s) < 10 THEN s \o Repeat(" ", 10 - Len(s)) ELSE s

\* `{status:10}` raises TypeError for None (NoneType supports no format
\* specification).
chart_raises(data) == \E i \in 1..Len(data) : ~IsStr(data[i].status)

\* Mutant: a failed run gets the neutral glyph.
chart_line_no_cross(d, max_val) ==
    LET val == d.test_counts.total_count[2]
        bar_length == (val * 20) \div max_val
        status_icon == IF d.status = JStr(success) THEN "ok-glyph" ELSE "neutral-glyph"
    IN  <<status_icon, " ">> \o PadStatus(d.status[2]) \o <<" |">>
          \o Repeat("bar-glyph", bar_length) \o <<"| ", ToString(val)>>

\* Mutant: the bar length is rounded to the nearest integer.
chart_line_rounded(d, max_val) ==
    LET val == d.test_counts.total_count[2]
        bar_length == (val * 40 + max_val) \div (2 * max_val)
        status_icon == IF d.status = JStr(success) THEN "ok-glyph"
                       ELSE IF d.status = JStr(failed) THEN "cross-glyph"
                       ELSE "neutral-glyph"
    IN  <<status_icon, " ">> \o PadStatus(d.status[2]) \o <<" |">>
          \o Repeat("bar-glyph", bar_length) \o <<"| ", ToString(val)>>

\* Mutant: the bar shows what is missing to the maximum.
chart_line_inverted(d, max_val) ==
    LET val == d.test_counts.total_count[2]
        bar_length == ((max_val - val) * 20) \div max_val
        status_icon == IF d.status = JStr(success) THEN "ok-glyph"
                       ELSE IF d.status = JStr(failed) THEN "cross-glyph"
                       ELSE "neutral-glyph"
    IN  <<status_icon, " ">> \o PadStatus(d.status[2]) \o <<" |">>
          \o Repeat("bar-glyph", bar_length) \o <<"| ", ToString(val)>>

chart_line(d, max_val) ==
    LET val == d.test_counts.total_count[2]
        bar_length == (val * 20) \div max_val
        status_icon == IF d.status = JStr(success) THEN "ok-glyph"
                       ELSE IF d.status = JStr(failed) THEN "cross-glyph"
                       ELSE "neutral-glyph"
    IN  <<status_icon, " ">> \o PadStatus(d.status[2]) \o <<" |">>
          \o Repeat("bar-glyph", bar_length) \o <<"| ", ToString(val)>>

RECURSIVE JoinLines(_)
JoinLines(lines) ==
    IF Len(lines) = 0 THEN <<>>
    ELSE IF Len(lines) = 1 THEN lines[1]
    ELSE lines[1] \o <<NL>> \o JoinLines(Tail(lines))

\* Mutant: a list whose values are all 0 is treated like an empty list.
generate_ascii_bar_chart_skip_zero(data) ==
    IF Len(data) = 0 THEN <<"No data available">>
    ELSE LET m == Max({data[i].test_counts.total_count[2] : i \in 1..Len(data)})
         IN  IF m = 0 THEN <<"No data available">>
             ELSE JoinLines([i \in 1..Len(data) |-> chart_line(data[i], m)])

generate_ascii_bar_chart(data) ==
    IF Len(data) = 0 THEN <<"No data available">>
    ELSE LET m == Max({data[i].test_counts.total_count[2] : i \in 1..Len(data)})
             max_val == IF m = 0 THEN 1 ELSE m
         IN  JoinLines([i \in 1..Len(data) |-> chart_line(data[i], max_val)])

\* Mutant: the minutes are printed also when they are zero.
format_duration_always_minutes(seconds) ==
    IF IsNone(seconds) THEN "N/A"
    ELSE ToString(seconds[2] \div 60) \o "m " \o ToString(seconds[2] % 60) \o "s"

format_duration(seconds) ==
    IF IsNone(seconds) THEN "N/A"
    ELSE LET secs == seconds[2]
             mins == secs \div 60
             remaining_secs == secs % 60
         IN  IF mins > 0
             THEN ToString(mins) \o "m " \o ToString(remaining_secs) \o "s"
             ELSE ToString(secs) \o "s"

\* The f-string of generate_pipeline_section.  The literal text between two
\* inserted values is one token; the newline that ends the section is a
\* token of its own.  `now` is the text of datetime.now().strftime(...).
generate_pipeline_section(key, info, summary, history, now) ==
    LET chart == generate_ascii_bar_chart(Take(history, 10))
    IN  <<"<h2>">> \o Show(key)
        \o <<"</h2>",
             "\n\n<p>\n    <strong>Latest Pipeline Run:</strong>\n    <a href=\"">>
        \o Show(info.web_url) \o <<"\">">> \o Show(info.id)
        \o <<"</a> |\n    Status: ">> \o Show(info.status)
        \o <<" |\n    Duration: ", format_duration(info.metadata.duration),
             "\n</p>\n\n<h3>Test Results</h3>\n<table>\n    <tbody>\n        <tr>\n            <th>Total</th>\n            <th>Passed</th>\n            <th>Failed</th>\n            <th>Skipped</th>\n            <th>Errors</th>\n            <th>Time</th>\n        </tr>\n        <tr>\n            <td>">>
        \o Show(summary.total_count)
        \o <<"</td>\n            <td style=\"background-color: #e8f5e9;\">">>
        \o Show(summary.success_count)
        \o <<"</td>\n            <td style=\"background-color: #ffebee;\">">>
        \o Show(summary.failed_count)
        \o <<"</td>\n            <td style=\"background-color: #fff3e0;\">">>
        \o Show(summary.skipped_count)
        \o <<"</td>\n            <td>">>
        \o Show(summary.error_count)
        \o <<"</td>\n            <td>", format_duration(summary.total_time),
             "</td>\n        </tr>\n    </tbody>\n</table>\n\n<h3>Pipeline History (Last 10 Runs)</h3>\n<pre>">>
        \o chart
        \o <<"</pre>\n\n<p><em>Last updated: ", now, "</em></p>", NL>>

(***************************************************************************)
(* The collaborators: what the pipeline-data source may answer, and the    *)
(* pages the document store may hold when the first run starts.            *)
(***************************************************************************)
PageIds == {"p1", "p2"}

ErrorStatuses == {404, 500}

Timestamps == {"2024-01-15 10:00:00", "2024-01-15 10:00:01"}

PipelineA ==
    [id |-> JInt(287), name |-> JStr(<<"a">>), status |-> JStr(success),
     web_url |-> JStr(<<"u">>), duration |-> JInt(150)]

PipelineB == [id |-> JInt(288), name |-> JStr(<<"b">>), status |-> JStr(failed)]

PipelineNoName == [id |-> JInt(289), name |-> None, status |-> JStr(success)]

RawPipelines == {PipelineA, PipelineB, PipelineNoName}

ReportOk ==
    [total |-> JMap([count |-> JInt(150), success |-> JInt(148), failed |-> JInt(2)])]

ReportNullTotal == [total |-> None]

TestReports == {ReportOk, ReportNullTotal}

RawHistories ==
    { <<>>,
      <<[id |-> JInt(287), status |-> JStr(success)],
        [id |-> JInt(286), status |-> JStr(failed)]>>,
      <<[id |-> JInt(285), status |-> None]>> }

DocEmpty == <<>>

DocAB == <<"<h2>", "a", "</h2>", "x", "<h2>", "b", "</h2>", "y">>

DocB == <<"p", "<h2>", "b", "</h2>", "y", NL>>

\* What two earlier runs for PipelineA leave on an empty page: the rendered
\* section and one more newline.
DocSynced ==
    generate_pipeline_section(JStr(<<"a">>), parse_pipeline_info(PipelineA), ZeroTestSummary, <<>>, "2024-01-15 10:00:00") \o <<NL>>

InitialDocs == {DocEmpty, DocAB, DocB, DocSynced}

StoredPage(p, doc) ==
    IF p = "p1" THEN [title |-> "T1", content |-> doc, version |-> 5]
    ELSE [title |-> "T2", content |-> doc, version |-> 9]

(***************************************************************************)
(* confluence_client.py and gitlab_client.py.                              *)
(***************************************************************************)
Call(op, status) == [op |-> op, status |-> status]

NoError == [kind |-> "", op |-> "", status |-> 0]

\* response.raise_for_status() on an error status.
HTTPError(op, status) == [kind |-> "HTTPError", op |-> op, status |-> status]

TypeError(op) == [kind |-> "TypeError", op |-> op, status |-> 0]

\* response.json() of GET /rest/api/content/{page_id}?expand=body.storage,version
get_page(page_id) ==
    [title |-> store[page_id].title,
     body |-> [storage |-> [value |-> store[page_id].content]],
     version |-> [number |-> store[page_id].version]]

\* Mutant: the version is sent as read, not incremented.
update_page_same_version(page_id, title, value, version) ==
    [id |-> page_id,
     type |-> "page",
     title |-> title,
     body |-> [storage |-> [value |-> value, representation |-> "storage"]],
     version |-> [number |-> version,
                  message |-> "Updated via GitLab pipeline script"]]

\* The JSON body update_page PUTs.
update_page(page_id, title, value, version) ==
    [id |-> page_id,
     type |-> "page",
     title |-> title,
     body |-> [storage |-> [value |-> value, representation |-> "storage"]],
     version |-> [number |-> version + 1,
                  message |-> "Updated via GitLab pipeline script"]]

\* The page the store holds after it accepted the PUT body `data`.
Stored(data) ==
    [title |-> data.title,
     content |-> data.body.storage.value,
     version |-> data.version.number]

(***************************************************************************)
(* The command line and the configuration file (main.py, config.py).       *)
(***************************************************************************)
\* A compiled regular expression: the items of the pattern in order and the
\* names of its named groups (compiled.groupindex).  An item is `^`, `$`,
\* the opening or the closing of a group (named or not), the mark `?` of an
\* optional group that spans the next `skip` items, or one character class
\* with a greedy repetition count (max -1: unbounded).
Begin == [kind |-> "begin"]

End == [kind |-> "end"]

Open(g) == [kind |-> "open", group |-> g]

Close(g) == [kind |-> "close", group |-> g]

Optional(n) == [kind |-> "opt", skip |-> n]

Atom(cls, min, max) == [kind |-> "atom", cls |-> cls, min |-> min, max |-> max]

\* Character classes: a literal, `.` (no re.DOTALL: anything but a newline),
\* `[^ ]` and `[\d.]`.
Lit(c) == [neg |-> FALSE, chars |-> {c}]

Dot == [neg |-> TRUE, chars |-> {NL}]

NotSpace == [neg |-> TRUE, chars |-> {" "}]

DigitOrDot == [neg |-> FALSE, chars |-> {"0", "1", "2", "3", "4", "5", "6", "7", "8", "9", "."}]

InClass(c, cls) == (c \in cls.chars) # cls.neg

\* re.compile on the items of a well-formed pattern.
Compile(items) ==
    [items |-> items,
     groupindex |-> {items[i].group : i \in {j \in 1..Len(items) : items[j].kind = "open"}} \ {""}]

\* DEFAULT_REGEX of the tests: ^(?P<name>[^ ]+) - (?P<version>.*)$
PatternWithName ==
    Compile(<<Begin, Open("name"), Atom(NotSpace, 1, -1), Close("name"),
              Atom(Lit(" "), 1, 1), Atom(Lit("-"), 1, 1), Atom(Lit(" "), 1, 1),
              Open("version"), Atom(Dot, 0, -1), Close("version"), End>>)

\* (.*)
PatternWithoutName == Compile(<<Open(""), Atom(Dot, 0, -1), Close("")>>)

\* ^(?P<version>v[\d.]+)-(?P<name>.*)$
PatternVersionFirst ==
    Compile(<<Begin, Open("version"), Atom(Lit("v"), 1, 1), Atom(DigitOrDot, 1, -1), Close("version"),
              Atom(Lit("-"), 1, 1), Open("name"), Atom(Dot, 0, -1), Close("name"), End>>)

\* ^(?P<name>[^ ]+)$
PatternNameOnly == Compile(<<Begin, Open("name"), Atom(NotSpace, 1, -1), Close("name"), End>>)

\* (?P<name>a+): not anchored at either end.
PatternUnanchored == Compile(<<Open("name"), Atom(Lit("a"), 1, -1), Close("name")>>)

\* (?P<name>a)?-(?P<version>1)?: both groups optional.
PatternOptionalGroups ==
    Compile(<<Optional(3), Open("name"), Atom(Lit("a"), 1, 1), Close("name"),
              Atom(Lit("-"), 1, 1),
              Optional(3), Open("version"), Atom(Lit("1"), 1, 1), Close("version")>>)

\* (?P<version>v1): a named group, but none called `name`.
PatternVersionOnly ==
    Compile(<<Open("version"), Atom(Lit("v"), 1, 1), Atom(Lit("1"), 1, 1), Close("version")>>)

\* The number of characters from position pos on that a repetition of cls
\* takes at most.
Run(ref, pos, cls, max) ==
    Max({n \in 0..(Len(ref) + 1 - pos) :
            /\ max # -1 => n <= max
            /\ \A j \in 0..(n - 1) : InClass(ref[pos + j], cls)})

NoMatch == [ok |-> FALSE]

\* The backtracking search of the regex engine from item i at position pos:
\* the first way to match the remaining items, greedy counts tried from the
\* longest down, an optional group tried before its omission.  k is the
\* count being tried for the repetition at item i (-1: none yet).  A group
\* holds None until it takes part in the match, then the text it captured.
RECURSIVE MatchFrom(_, _, _, _, _, _)
MatchFrom(items, ref, i, pos, caps, k) ==
    IF i > Len(items) THEN [ok |-> TRUE, caps |-> caps]
    ELSE LET it == items[i]
         IN  CASE it.kind = "begin" ->
                    IF pos = 1 THEN MatchFrom(items, ref, i + 1, pos, caps, -1) ELSE NoMatch
               [] it.kind = "end" ->
                    IF pos = Len(ref) + 1 \/ (pos = Len(ref) /\ ref[pos] = NL)
                    THEN MatchFrom(items, ref, i + 1, pos, caps, -1)
                    ELSE NoMatch
               [] it.kind = "open" ->
                    MatchFrom(items, ref, i + 1, pos, [caps EXCEPT ![it.group] = JInt(pos)], -1)
               [] it.kind = "close" ->
                    MatchFrom(items, ref, i + 1, pos,
                              [caps EXCEPT ![it.group] = JStr(SubSeq(ref, caps[it.group][2], pos - 1))], -1)
               [] it.kind = "opt" ->
                    LET taken == MatchFrom(items, ref, i + 1, pos, caps, -1)
                    IN  IF taken.ok THEN taken
                        ELSE MatchFrom(items, ref, i + it.skip + 1, pos, caps, -1)
               [] OTHER ->
                    LET count == IF k = -1 THEN Run(ref, pos, it.cls, it.max) ELSE k
                        rest == MatchFrom(items, ref, i + 1, pos + count, caps, -1)
                    IN  IF count < it.min THEN NoMatch
                        ELSE IF rest.ok THEN rest
                        ELSE IF count = 0 THEN NoMatch
                        ELSE MatchFrom(items, ref, i, pos, caps, count - 1)

\* compiled.match(ref): a match at the start of ref.
match(compiled, ref) ==
    MatchFrom(compiled.items, ref, 1, 1, [g \in compiled.groupindex \cup {""} |-> None], -1)

\* parse_ref_with_regex raises ValueError, whatever the ref, when the
\* pattern has no group called `name`.
parse_ref_with_regex_raises(regex_pattern) == "name" \notin regex_pattern.groupindex

\* The (name, version, matched) tuple parse_ref_with_regex returns for a
\* pattern with a `name` group.  match.group gives None for a group that
\* took no part in the match.
parse_ref_with_regex(ref, regex_pattern) ==
    LET m == match(regex_pattern, ref)
        has_version == "version" \in regex_pattern.groupindex
    IN  IF ~m.ok THEN <<JStr(<<>>), JStr(<<"N", "/", "A">>), FALSE>>
        ELSE <<m.caps["name"],
               IF has_version /\ m.caps["version"] \notin {None, JStr(<<>>)}
               THEN m.caps["version"]
               ELSE JStr(<<"N", "/", "A">>),
               TRUE>>

\* The files a --config argument may name: absent, not YAML, or a mapping of
\* sections to options.  One of them sets a ref pattern without the `name`
\* group next to the history count.
ConfigFiles ==
    [missing |-> [exists |-> FALSE, yaml |-> FALSE, data |-> <<>>],
     broken |-> [exists |-> TRUE, yaml |-> FALSE, data |-> <<>>],
     refs |-> [exists |-> TRUE, yaml |-> TRUE,
               data |-> [options |-> [history_count |-> 2, ref_regex |-> PatternWithoutName]]]]

\* load_config_file raises FileNotFoundError or lets yaml.YAMLError through.
load_config_file_raises(config_path) ==
    IF config_path = "" THEN FALSE
    ELSE ~ConfigFiles[config_path].exists \/ ~ConfigFiles[config_path].yaml

\* Without a path the configuration is the empty mapping.
load_config_file(config_path) ==
    IF config_path = "" THEN <<>> ELSE ConfigFiles[config_path].data

\* get_history_count without HISTORY_COUNT in the environment: the value of
\* options.history_count of the file, else 10.
get_history_count(config) ==
    IF "options" \in DOMAIN config /\ "history_count" \in DOMAIN config["options"]
    THEN config["options"]["history_count"]
    ELSE 10

\* The command lines of a run: the required pipeline id given or not, and
\* --config absent ("") or naming one of the files.  (--save-config writes a
\* template and returns without starting a run.)
CommandLines ==
    {[pipeline_id |-> 287, config |-> ""],
     [pipeline_id |-> 0, config |-> ""],
     [pipeline_id |-> 287, config |-> "missing"],
     [pipeline_id |-> 287, config |-> "broken"],
     [pipeline_id |-> 287, config |-> "refs"]}

\* arg_parser.error (exit status 2) or sys.exit(1) before the clients exist.
SystemExit(op, status) == [kind |-> "SystemExit", op |-> op, status |-> status]

(***************************************************************************)
(* main(): one action per step of a run and per way the step can end.      *)
(***************************************************************************)
TestsWarning == "Warning: Could not fetch test summary"

NotFoundWarning == "Warning: Section not found in page. Appending..."

Unset == <<"unset">>

\* The same for a local that will hold an object or a decoded JSON mapping.
UnsetObject == [unset |-> TRUE]

LocalsUnset ==
    /\ pipeline_info = UnsetObject
    /\ pipeline_name = Unset
    /\ test_report = UnsetObject
    /\ test_summary = UnsetObject
    /\ recent_pipelines = <<>>
    /\ section_content = <<>>
    /\ page = UnsetObject
    /\ current_content = <<>>
    /\ current_version = 0
    /\ page_title = ""
    /\ new_content = <<>>

SpliceOff ==
    /\ content = <<>>
    /\ name = <<>>
    /\ new_section = <<>>
    /\ result = <<>>
    /\ again = <<>>
    /\ phase = "off"

\* No direct call of a rendering function is being made.
ChartOff ==
    /\ chart_input = <<>>
    /\ chart_output = <<>>
    /\ section = <<>>
    /\ cphase = "off"

DurationOff ==
    /\ duration_input = None
    /\ formatted = ""
    /\ dphase = "off"

\* No direct call of a function of models.py or config.py is being made.
CallOff ==
    /\ fn = ""
    /\ fn_args = <<>>
    /\ fn_result = <<>>
    /\ fn_phase = "off"

Init ==
    /\ SpliceOff
    /\ ChartOff
    /\ DurationOff
    /\ CallOff
    /\ LocalsUnset
    /\ history_count = 0
    /\ runs = 1
    /\ pc = "Start"
    /\ calls = <<>>
    /\ raised = NoError
    /\ warnings = <<>>
    /\ updates = <<>>
    /\ requests = <<>>
    /\ \E p \in PageIds, doc \in InitialDocs, line \in CommandLines :
          /\ args = [confluence_page_id |-> p, pipeline_id |-> line.pipeline_id, config |-> line.config]
          /\ store = [q \in PageIds |-> StoredPage(q, IF q = p THEN doc ELSE DocAB)]

\* Arguments parsed and checked, configuration resolved, clients built.
Start ==
    /\ pc = "Start"
    /\ args.pipeline_id # 0
    /\ ~load_config_file_raises(args.config)
    /\ history_count' = get_history_count(load_config_file(args.config))
    /\ pc' = "FetchPipeline"
    /\ UNCHANGED <<callVars, renderVars, spliceVars, localVars, store, runs, args, calls, raised, warnings, updates, requests>>

\* A required argument is missing, or the configuration file is absent or
\* not YAML: the process exits before the clients are built.
StartFail ==
    /\ pc = "Start"
    /\ \/ /\ args.pipeline_id = 0
          /\ raised' = SystemExit("parse_args", 2)
       \/ /\ args.pipeline_id # 0
          /\ load_config_file_raises(args.config)
          /\ raised' = SystemExit("load_config_file", 1)
    /\ pc' = "Failed"
    /\ UNCHANGED <<callVars, renderVars, history_count, spliceVars, localVars, store, runs, args, calls, warnings, updates, requests>>

FetchPipelineOk ==
    /\ pc = "FetchPipeline"
    /\ \E pipeline \in RawPipelines :
          /\ pipeline_info' = parse_pipeline_info(pipeline)
          /\ pipeline_name' = parse_pipeline_info(pipeline).name
    /\ calls' = Append(calls, Call("get_pipeline", 200))
    /\ pc' = "FetchTests"
    /\ UNCHANGED <<callVars, renderVars, history_count, spliceVars, store, runs, args, raised, warnings, updates, requests>>
    /\ UNCHANGED <<test_report, test_summary, recent_pipelines, section_content, page, current_content, current_version, page_title, new_content>>

FetchPipelineFail ==
    /\ pc = "FetchPipeline"
    /\ \E status \in ErrorStatuses :
          /\ calls' = Append(calls, Call("get_pipeline", status))
          /\ raised' = HTTPError("get_pipeline", status)
    /\ pc' = "Failed"
    /\ UNCHANGED <<callVars, renderVars, history_count, spliceVars, localVars, store, runs, args, warnings, updates, requests>>

FetchTestsOk ==
    /\ pc = "FetchTests"
    /\ \E report \in TestReports :
          /\ ~parse_test_summary_raises(report)
          /\ test_report' = report
          /\ test_summary' = parse_test_summary(report)
    /\ calls' = Append(calls, Call("get_pipeline_test_report_summary", 200))
    /\ pc' = "FetchHistory"
    /\ UNCHANGED <<callVars, renderVars, history_count, spliceVars, store, runs, args, raised, warnings, updates, requests>>
    /\ UNCHANGED <<pipeline_info, pipeline_name, recent_pipelines, section_content, page, current_content, current_version, page_title, new_content>>

\* Mutant: the fetch of the test summary is not guarded and ends the run.
FetchTestsFail_fatal ==
    /\ pc = "FetchTests"
    /\ \E status \in ErrorStatuses :
          /\ calls' = Append(calls, Call("get_pipeline_test_report_summary", status))
          /\ raised' = HTTPError("get_pipeline_test_report_summary", status)
    /\ pc' = "Failed"
    /\ UNCHANGED <<callVars, renderVars, history_count, spliceVars, localVars, store, runs, args, warnings, updates, requests>>

\* The fetch raises: caught by `except Exception`.
FetchTestsFail ==
    /\ pc = "FetchTests"
    /\ \E status \in ErrorStatuses :
          calls' = Append(calls, Call("get_pipeline_test_report_summary", status))
    /\ warnings' = Append(warnings, TestsWarning)
    /\ test_summary' = ZeroTestSummary
    /\ pc' = "FetchHistory"
    /\ UNCHANGED <<callVars, renderVars, history_count, spliceVars, store, runs, args, raised, updates, requests>>
    /\ UNCHANGED <<pipeline_info, pipeline_name, test_report, recent_pipelines, section_content, page, current_content, current_version, page_title, new_content>>

\* Mutant: parse_test_summary is called outside the try block.
FetchTestsParseFail_fatal ==
    /\ pc = "FetchTests"
    /\ \E report \in TestReports :
          /\ parse_test_summary_raises(report)
          /\ test_report' = report
    /\ calls' = Append(calls, Call("get_pipeline_test_report_summary", 200))
    /\ raised' = [kind |-> "AttributeError", op |-> "parse_test_summary", status |-> 0]
    /\ pc' = "Failed"
    /\ UNCHANGED <<callVars, renderVars, history_count, spliceVars, store, runs, args, warnings, updates, requests>>
    /\ UNCHANGED <<pipeline_info, pipeline_name, test_summary, recent_pipelines, section_content, page, current_content, current_version, page_title, new_content>>

\* parse_test_summary raises on the fetched report: caught by the same handler.
FetchTestsParseFail ==
    /\ pc = "FetchTests"
    /\ \E report \in TestReports :
          /\ parse_test_summary_raises(report)
          /\ test_report' = report
    /\ calls' = Append(calls, Call("get_pipeline_test_report_summary", 200))
    /\ warnings' = Append(warnings, TestsWarning)
    /\ test_summary' = ZeroTestSummary
    /\ pc' = "FetchHistory"
    /\ UNCHANGED <<callVars, renderVars, history_count, spliceVars, store, runs, args, raised, updates, requests>>
    /\ UNCHANGED <<pipeline_info, pipeline_name, recent_pipelines, section_content, page, current_content, current_version, page_title, new_content>>

\* Mutant: every history entry is given the counts of the run's test
\* summary before it is charted.
FetchHistoryOk_enriched ==
    /\ pc = "FetchHistory"
    /\ \E pipelines_data \in RawHistories :
          recent_pipelines' =
              [i \in 1..Len(pipelines_data) |->
                  add_test_summary_to_pipeline(parse_pipelines(pipelines_data)[i], test_summary)]
    /\ calls' = Append(calls, Call("get_pipelines", 200))
    /\ pc' = "Render"
    /\ UNCHANGED <<callVars, renderVars, history_count, spliceVars, store, runs, args, raised, warnings, updates, requests>>
    /\ UNCHANGED <<pipeline_info, pipeline_name, test_report, test_summary, section_content, page, current_content, current_version, page_title, new_content>>

FetchHistoryOk ==
    /\ pc = "FetchHistory"
    /\ \E pipelines_data \in RawHistories :
          recent_pipelines' = parse_pipelines(pipelines_data)
    /\ calls' = Append(calls, Call("get_pipelines", 200))
    /\ pc' = "Render"
    /\ UNCHANGED <<callVars, renderVars, history_count, spliceVars, store, runs, args, raised, warnings, updates, requests>>
    /\ UNCHANGED <<pipeline_info, pipeline_name, test_report, test_summary, section_content, page, current_content, current_version, page_title, new_content>>

\* Mutant: a failed history fetch is swallowed and the run goes on with an
\* empty history.
FetchHistoryFail_swallowed ==
    /\ pc = "FetchHistory"
    /\ \E status \in ErrorStatuses :
          calls' = Append(calls, Call("get_pipelines", status))
    /\ recent_pipelines' = <<>>
    /\ pc' = "Render"
    /\ UNCHANGED <<callVars, renderVars, history_count, spliceVars, store, runs, args, raised, warnings, updates, requests>>
    /\ UNCHANGED <<pipeline_info, pipeline_name, test_report, test_summary, section_content, page, current_content, current_version, page_title, new_content>>

\* Mutant: a failed history fetch is tried again.
FetchHistoryFail_retry ==
    /\ pc = "FetchHistory"
    /\ \E status \in ErrorStatuses :
          calls' = Append(calls, Call("get_pipelines", status))
    /\ pc' = "FetchHistory"
    /\ Len(calls) < 6
    /\ UNCHANGED <<callVars, renderVars, history_count, spliceVars, localVars, store, runs, args, raised, warnings, updates, requests>>

FetchHistoryFail ==
    /\ pc = "FetchHistory"
    /\ \E status \in ErrorStatuses :
          /\ calls' = Append(calls, Call("get_pipelines", status))
          /\ raised' = HTTPError("get_pipelines", status)
    /\ pc' = "Failed"
    /\ UNCHANGED <<callVars, renderVars, history_count, spliceVars, localVars, store, runs, args, warnings, updates, requests>>

RenderOk ==
    /\ pc = "Render"
    /\ ~chart_raises(Take(recent_pipelines, 10))
    /\ \E now \in Timestamps :
          section_content' = generate_pipeline_section(pipeline_name, pipeline_info, test_summary, recent_pipelines, now)
    /\ pc' = "FetchDocument"
    /\ UNCHANGED <<callVars, renderVars, history_count, spliceVars, store, runs, args, calls, raised, warnings, updates, requests>>
    /\ UNCHANGED <<pipeline_info, pipeline_name, test_report, test_summary, recent_pipelines, page, current_content, current_version, page_title, new_content>>

\* generate_ascii_bar_chart raises TypeError; main() does not catch it.
RenderFail ==
    /\ pc = "Render"
    /\ chart_raises(Take(recent_pipelines, 10))
    /\ raised' = TypeError("generate_pipeline_section")
    /\ pc' = "Failed"
    /\ UNCHANGED <<callVars, renderVars, history_count, spliceVars, localVars, store, runs, args, calls, warnings, updates, requests>>

FetchDocumentOk ==
    /\ pc = "FetchDocument"
    /\ page' = get_page(args.confluence_page_id)
    /\ current_content' = get_page(args.confluence_page_id).body.storage.value
    /\ current_version' = get_page(args.confluence_page_id).version.number
    /\ page_title' = get_page(args.confluence_page_id).title
    /\ calls' = Append(calls, Call("get_page", 200))
    /\ pc' = "Splice"
    /\ UNCHANGED <<callVars, renderVars, history_count, spliceVars, store, runs, args, raised, warnings, updates, requests>>
    /\ UNCHANGED <<pipeline_info, pipeline_name, test_report, test_summary, recent_pipelines, section_content, new_content>>

FetchDocumentFail ==
    /\ pc = "FetchDocument"
    /\ \E status \in ErrorStatuses :
          /\ calls' = Append(calls, Call("get_page", status))
          /\ raised' = HTTPError("get_page", status)
    /\ pc' = "Failed"
    /\ UNCHANGED <<callVars, renderVars, history_count, spliceVars, localVars, store, runs, args, warnings, updates, requests>>

\* find_and_replace_section, then the `new_content == current_content` test.
SpliceOk ==
    /\ pc = "Splice"
    /\ IsStr(pipeline_name)
    /\ \E spliced \in {find_and_replace_section(current_content, pipeline_name[2], section_content)} :
          IF spliced = current_content
          THEN /\ warnings' = Append(warnings, NotFoundWarning)
               /\ new_content' = current_content \o section_content
          ELSE /\ warnings' = warnings
               /\ new_content' = spliced
    /\ pc' = "WriteDocument"
    /\ UNCHANGED <<callVars, renderVars, history_count, spliceVars, store, runs, args, calls, raised, updates, requests>>
    /\ UNCHANGED <<pipeline_info, pipeline_name, test_report, test_summary, recent_pipelines, section_content, page, current_content, current_version, page_title>>

\* re.escape(None) raises TypeError; main() does not catch it.
SpliceFail ==
    /\ pc = "Splice"
    /\ ~IsStr(pipeline_name)
    /\ raised' = TypeError("find_and_replace_section")
    /\ pc' = "Failed"
    /\ UNCHANGED <<callVars, renderVars, history_count, spliceVars, localVars, store, runs, args, calls, warnings, updates, requests>>

WriteDocumentOk ==
    /\ pc = "WriteDocument"
    /\ LET data == update_page(args.confluence_page_id, page_title, new_content, current_version)
       IN  /\ requests' = Append(requests, data)
           /\ store' = [store EXCEPT ![data.id] = Stored(data)]
    /\ updates' = Append(updates, [page_id |-> args.confluence_page_id, title |-> page_title, content |-> new_content, version |-> current_version])
    /\ calls' = Append(calls, Call("update_page", 200))
    /\ pc' = "Done"
    /\ UNCHANGED <<callVars, renderVars, history_count, spliceVars, localVars, runs, args, raised, warnings>>

WriteDocumentFail ==
    /\ pc = "WriteDocument"
    /\ requests' = Append(requests, update_page(args.confluence_page_id, page_title, new_content, current_version))
    /\ updates' = Append(updates, [page_id |-> args.confluence_page_id, title |-> page_title, content |-> new_content, version |-> current_version])
    /\ \E status \in ErrorStatuses :
          /\ calls' = Append(calls, Call("update_page", status))
          /\ raised' = HTTPError("update_page", status)
    /\ pc' = "Failed"
    /\ UNCHANGED <<callVars, renderVars, history_count, spliceVars, localVars, store, runs, args, warnings>>

\* The process has ended; the program is started again on the same page.
NextRun ==
    /\ pc \in {"Done", "Failed"}
    /\ runs < MaxRuns
    /\ runs' = runs + 1
    /\ pc' = "Start"
    /\ calls' = <<>>
    /\ raised' = NoError
    /\ warnings' = <<>>
    /\ updates' = <<>>
    /\ requests' = <<>>
    /\ pipeline_info' = UnsetObject
    /\ pipeline_name' = Unset
    /\ test_report' = UnsetObject
    /\ test_summary' = UnsetObject
    /\ recent_pipelines' = <<>>
    /\ section_content' = <<>>
    /\ page' = UnsetObject
    /\ current_content' = <<>>
    /\ current_version' = 0
    /\ page_title' = ""
    /\ new_content' = <<>>
    /\ history_count' = 0
    /\ UNCHANGED <<callVars, renderVars, spliceVars, store, args>>

Next ==
    \/ Start \/ StartFail
    \/ FetchPipelineOk \/ FetchPipelineFail
    \/ FetchTestsOk \/ FetchTestsFail \/ FetchTestsParseFail
    \/ FetchHistoryOk \/ FetchHistoryFail
    \/ RenderOk \/ RenderFail
    \/ FetchDocumentOk \/ FetchDocumentFail
    \/ SpliceOk \/ SpliceFail
    \/ WriteDocumentOk \/ WriteDocumentFail
    \/ NextRun

Spec == Init /\ [][Next]_vars

\* No run of main() is in progress (SpliceSpec).
RunOff ==
    /\ LocalsUnset
    /\ store = [q \in PageIds |-> StoredPage(q, DocEmpty)]
    /\ runs = 0
    /\ args = [confluence_page_id |-> "p1", pipeline_id |-> 287, config |-> ""]
    /\ pc = "off"
    /\ calls = <<>>
    /\ raised = NoError
    /\ warnings = <<>>
    /\ updates = <<>>
    /\ requests = <<>>

(***************************************************************************)
(* SpliceSpec: find_and_replace_section called on arbitrary bounded input, *)
(* then called again on its own result with the same key and section.      *)
(***************************************************************************)
DocAlphabet == {"<h2>", "</h2>", "a", "A", "b", " ", NL}

Docs == SeqsUpTo(DocAlphabet, MaxDocLen)

Keys == {<<"a">>, <<"A">>}

\* A section as rendered for key k: its header followed by a body without
\* any further header.
SectionFor(k, body) == <<"<h2>">> \o k \o <<"</h2>">> \o body

Bodies == {<<"z">>, <<"z", NL>>}

Sections == {SectionFor(k, b) : k \in Keys, b \in Bodies} \cup {<<"z">>}

SpliceInit ==
    /\ content \in Docs
    /\ name \in Keys
    /\ new_section \in Sections
    /\ result = <<>>
    /\ again = <<>>
    /\ phase = "input"
    /\ RunOff
    /\ history_count = 0
    /\ ChartOff
    /\ DurationOff
    /\ CallOff

SpliceOnce ==
    /\ phase = "input"
    /\ result' = find_and_replace_section(content, name, new_section)
    /\ phase' = "spliced"
    /\ UNCHANGED <<content, name, new_section, again, runVars, localVars, history_count, renderVars, callVars>>

SpliceTwice ==
    /\ phase = "spliced"
    /\ again' = find_and_replace_section(result, name, new_section)
    /\ phase' = "respliced"
    /\ UNCHANGED <<content, name, new_section, result, runVars, localVars, history_count, renderVars, callVars>>

SpliceNext == SpliceOnce \/ SpliceTwice

(***************************************************************************)
(* Vocabulary of the splice claims, stated on the text alone.              *)
(***************************************************************************)
SameUpToCase(x, y) == x = y \/ {x, y} = {"a", "A"} \/ {x, y} = {"b", "B"}

\* A header `<h2>key</h2>`, its text equal to key up to letter case, starts
\* at position i of s.
KeyHeaderAt(s, i, key) ==
    /\ i + Len(key) + 1 <= Len(s)
    /\ s[i] = "<h2>"
    /\ \A k \in 1..Len(key) : SameUpToCase(s[i + k], key[k])
    /\ s[i + Len(key) + 1] = "</h2>"

KeyHeaders(s, key) == {i \in 1..Len(s) : KeyHeaderAt(s, i, key)}

\* Position of the first `<h2>` at or after position from, 0 if none.
NextH2(s, from) ==
    LET later == {q \in from..Len(s) : s[q] = "<h2>"}
    IN  IF later = {} THEN 0 ELSE Min(later)

Before(s, i) == SubSeq(s, 1, i - 1)

From(s, i) == SubSeq(s, i, Len(s))

EndsWith(s, t) ==
    /\ Len(t) <= Len(s)
    /\ SubSeq(s, Len(s) - Len(t) + 1, Len(s)) = t

\* C1: when the header is found, the result is the content before the
\* matched header, then new_section, then the content from the next `<h2>`
\* on (that tag included), or nothing when no later `<h2>` exists.
C1_SpliceKeepsRest ==
    (phase = "spliced" /\ KeyHeaders(content, name) # {}) =>
        LET i == Min(KeyHeaders(content, name))
            n == NextH2(content, i + Len(name) + 2)
        IN  result = Before(content, i) \o new_section
                       \o (IF n = 0 THEN <<>> ELSE From(content, n))

\* C2: splicing the section rendered for the key a second time gives the
\* same document as splicing it once.
C2_SpliceIdempotent ==
    (phase = "respliced" /\ new_section \in {SectionFor(name, b) : b \in Bodies}) =>
        again = result

\* C3: when the document holds no header for the key, the result is exactly
\* the document followed by new_section.
C3_MissAppends ==
    (phase # "input" /\ KeyHeaders(content, name) = {}) =>
        result = content \o new_section

C3_Witness ==
    /\ phase = "spliced"
    /\ content = <<"b", "<h2>", "b", "</h2>", NL>>
    /\ name = <<"a">>
    /\ new_section = SectionFor(<<"a">>, <<"z", NL>>)
    /\ result = <<"b", "<h2>", "b", "</h2>", NL, "<h2>", "a", "</h2>", "z", NL>>

\* C9: the replaced span stops at the first following `<h2>`: everything
\* after that tag is the unchanged suffix of the result and nothing more is
\* removed; without a following `<h2>` the span runs to the end of the
\* document.
C9_SpanNotGreedy ==
    (phase = "spliced" /\ KeyHeaders(content, name) # {}) =>
        LET i == Min(KeyHeaders(content, name))
            n == NextH2(content, i + Len(name) + 2)
        IN  IF n # 0
            THEN /\ EndsWith(result, From(content, n + 1))
                 /\ Len(result) >= (i - 1) + Len(new_section) + (Len(content) - n)
            ELSE result = Before(content, i) \o new_section

\* C10: a header equal to the key up to letter case is replaced, not
\* appended to, and new_section stands verbatim where that header began.
C10_CaseInsensitiveReplace ==
    (phase # "input" /\ KeyHeaders(content, name) # {}) =>
        LET i == Min(KeyHeaders(content, name))
        IN  /\ Len(result) < Len(content) + Len(new_section)
            /\ Len(result) >= (i - 1) + Len(new_section)
            /\ SubSeq(result, 1, i - 1 + Len(new_section))
                 = Before(content, i) \o new_section

C10_Witness ==
    /\ phase = "spliced"
    /\ content = <<"b", "<h2>", "A", "</h2>", "b">>
    /\ name = <<"a">>
    /\ new_section = SectionFor(<<"a">>, <<"z">>)
    /\ result = <<"b", "<h2>", "a", "</h2>", "z">>

\* The text of s without its blanks.
StripBlanks(s) == SelectSeq(s, LAMBDA tok : tok # " ")

\* A header opens at position i of s and closes at position j, its text
\* holds no tag, differs from key and equals key once the blanks are removed
\* (letter case aside).
BlankHeaderAt(s, i, j, key) ==
    /\ i < j /\ j <= Len(s)
    /\ s[i] = "<h2>"
    /\ s[j] = "</h2>"
    /\ \A k \in (i + 1)..(j - 1) : s[k] \notin {"<h2>", "</h2>"}
    /\ SubSeq(s, i + 1, j - 1) # StripBlanks(SubSeq(s, i + 1, j - 1))
    /\ Len(StripBlanks(SubSeq(s, i + 1, j - 1))) = Len(key)
    /\ \A k \in 1..Len(key) : SameUpToCase(StripBlanks(SubSeq(s, i + 1, j - 1))[k], key[k])

BlankHeaders(s, key) ==
    {i \in 1..Len(s) : \E j \in 1..Len(s) : BlankHeaderAt(s, i, j, key)}

\* C11: when the only header for the key differs from it in whitespace,
\* that header is still taken for the key's section: the section is put in
\* its place and the result is not the document with new_section appended.
C11_BlankInsensitiveReplace ==
    (phase = "spliced" /\ KeyHeaders(content, name) = {} /\ BlankHeaders(content, name) # {}) =>
        LET i == Min(BlankHeaders(content, name))
        IN  /\ result # content \o new_section
            /\ SubSeq(result, 1, i - 1 + Len(new_section)) = Before(content, i) \o new_section

SpliceSpec == SpliceInit /\ [][SpliceNext]_vars

(***************************************************************************)
(* Claims about a run of main().                                           *)
(***************************************************************************)
OpsOf(cs) == [i \in 1..Len(cs) |-> cs[i].op]

InSeq(x, s) == \E i \in 1..Len(s) : s[i] = x

CountOp(op) == Cardinality({i \in 1..Len(calls) : calls[i].op = op})

FetchOps == <<"get_pipeline", "get_pipeline_test_report_summary", "get_pipelines", "get_page">>

AllOps == FetchOps \o <<"update_page">>

\* C4: a run that reaches Done called update_page exactly once, with the
\* page id of the run and the title and version get_page returned in this
\* run; the body sent carries that version plus one.
C4_WriteUsesReadVersion ==
    pc = "Done" =>
        /\ CountOp("update_page") = 1
        /\ Len(updates) = 1
        /\ Len(requests) = 1
        /\ updates[1].page_id = args.confluence_page_id
        /\ updates[1].title = page.title
        /\ updates[1].version = page.version.number
        /\ requests[1].id = args.confluence_page_id
        /\ requests[1].title = page.title
        /\ requests[1].version.number = page.version.number + 1
        /\ store[args.confluence_page_id].version = page.version.number + 1

C4_Witness ==
    /\ pc = "Done"
    /\ args.confluence_page_id = "p1"
    /\ page.version.number = 5
    /\ updates = <<[page_id |-> "p1", title |-> "T1", content |-> new_content, version |-> 5]>>
    /\ requests[1].version.number = 6
    /\ store["p1"].version = 6

\* C5: a failed get_pipeline, get_pipelines or get_page ends the run in
\* Failed with that very error and without any update_page call; whenever
\* update_page was called, the four fetches were made in order, the three
\* required ones succeeded, and the section was rendered and spliced.
C5_NoPartialWrite ==
    /\ \A i \in 1..Len(calls) :
          (calls[i].op \in {"get_pipeline", "get_pipelines", "get_page"} /\ calls[i].status # 200) =>
              /\ pc = "Failed"
              /\ raised = [kind |-> "HTTPError", op |-> calls[i].op, status |-> calls[i].status]
              /\ CountOp("update_page") = 0
              /\ updates = <<>>
              /\ requests = <<>>
    /\ (CountOp("update_page") > 0 \/ updates # <<>> \/ requests # <<>>) =>
          /\ OpsOf(calls) = AllOps
          /\ calls[1].status = 200 /\ calls[3].status = 200 /\ calls[4].status = 200
          /\ section_content # <<>>
          /\ new_content # <<>>
          /\ requests[1].body.storage.value = new_content

C5_Witness ==
    /\ pc = "Failed"
    /\ OpsOf(calls) = FetchOps
    /\ calls[4].status = 500
    /\ raised = [kind |-> "HTTPError", op |-> "get_page", status |-> 500]
    /\ section_content # <<>>
    /\ requests = <<>>

\* The test-summary step failed: the fetch was answered with an error, or
\* parse_test_summary raises on the fetched report.
TestsStepFailed ==
    /\ Len(calls) >= 2
    /\ \/ calls[2].status # 200
       \/ parse_test_summary_raises(test_report)

\* C6: the step after FetchTests is always FetchHistory, never Failed, and
\* when the test-summary step failed the all-zero TestSummary is used and
\* the warning is printed.
C6_TestsFailureNotFatal ==
    [][pc = "FetchTests" =>
         /\ pc' = "FetchHistory"
         /\ TestsStepFailed' =>
               /\ test_summary' = ZeroTestSummary
               /\ InSeq(TestsWarning, warnings')]_vars

C6_Witness ==
    /\ pc = "Done"
    /\ calls[2] = [op |-> "get_pipeline_test_report_summary", status |-> 500]
    /\ test_summary = ZeroTestSummary
    /\ InSeq(TestsWarning, warnings)
    /\ Len(requests) = 1

RequiredSteps == {"FetchPipeline", "FetchHistory", "Render", "FetchDocument", "Splice", "WriteDocument"}

StepEdges ==
    {<<"Start", "FetchPipeline">>, <<"FetchPipeline", "FetchTests">>,
     <<"FetchTests", "FetchHistory">>, <<"FetchHistory", "Render">>,
     <<"Render", "FetchDocument">>, <<"FetchDocument", "Splice">>,
     <<"Splice", "WriteDocument">>, <<"WriteDocument", "Done">>}
    \cup {<<s, "Failed">> : s \in RequiredSteps}
    \cup {<<"Start", "Failed">>}

\* The collaborator calls a run has made when it is about to execute step s.
CallsBefore(s) ==
    CASE s \in {"Start", "FetchPipeline"} -> <<>>
      [] s = "FetchTests" -> SubSeq(AllOps, 1, 1)
      [] s = "FetchHistory" -> SubSeq(AllOps, 1, 2)
      [] s \in {"Render", "FetchDocument"} -> SubSeq(AllOps, 1, 3)
      [] s \in {"Splice", "WriteDocument"} -> SubSeq(AllOps, 1, 4)
      [] OTHER -> AllOps

\* C7: within a run the steps follow one another in the fixed order; a step
\* is left only for its successor or, from a required step, for Failed;
\* FetchTests is never left for Failed; each step starts with exactly the
\* calls of its predecessors made.
C7_StepOrder ==
    /\ [][(pc' # pc /\ pc' # "Start") => <<pc, pc'>> \in StepEdges]_vars
    /\ [][pc' = "Start" => pc \in {"Done", "Failed"}]_vars
    /\ [](pc \notin {"Failed", "off"} => OpsOf(calls) = CallsBefore(pc))

C7_Witness ==
    /\ pc = "Done"
    /\ runs = 2
    /\ OpsOf(calls) = AllOps
    /\ \A i \in 1..Len(calls) : calls[i].status = 200

\* C8: when the fetched document holds no header for the pipeline name, the
\* run has printed the section-not-found warning by the time it writes.
C8_MissWarns ==
    (pc \in {"WriteDocument", "Done"} /\ KeyHeaders(current_content, pipeline_name[2]) = {}) =>
        InSeq(NotFoundWarning, warnings)

\* The run was configured wrongly: a required argument is missing, the
\* configuration file is absent or not YAML, or the file sets a ref pattern
\* that parse_ref_with_regex rejects for want of the `name` group.
ConfigurationError ==
    \/ args.pipeline_id = 0
    \/ load_config_file_raises(args.config)
    \/ /\ ~load_config_file_raises(args.config)
       /\ "options" \in DOMAIN load_config_file(args.config)
       /\ "ref_regex" \in DOMAIN load_config_file(args.config)["options"]
       /\ parse_ref_with_regex_raises(load_config_file(args.config)["options"]["ref_regex"])

\* C12: a run with a configuration error leaves Start only for Failed and
\* makes no call to the pipeline-data source or the document store.
C12_ConfigErrorFailsFast ==
    (ConfigurationError /\ pc # "Start") =>
        /\ pc = "Failed"
        /\ raised.kind \in {"SystemExit", "ValueError"}
        /\ calls = <<>>

\* One step of the current run: everything but the start of a new run.
RunStep ==
    \/ Start \/ StartFail
    \/ FetchPipelineOk \/ FetchPipelineFail
    \/ FetchTestsOk \/ FetchTestsFail \/ FetchTestsParseFail
    \/ FetchHistoryOk \/ FetchHistoryFail
    \/ RenderOk \/ RenderFail
    \/ FetchDocumentOk \/ FetchDocumentFail
    \/ SpliceOk \/ SpliceFail
    \/ WriteDocumentOk \/ WriteDocumentFail

\* main() is one thread of blocking calls and local computation: a started
\* step is carried out, every call being answered by its collaborator.
LiveSpec == Init /\ [][Next]_vars /\ WF_vars(RunStep)

RunEnded == pc \in {"Done", "Failed"}

waiting_for_resource ==
    <<"w", "a", "i", "t", "i", "n", "g", "_", "f", "o", "r", "_", "r", "e", "s", "o", "u", "r", "c", "e">>

\* Statuses of a history entry: the two the chart knows, a GitLab status of
\* more than ten characters, and the default for a record without status.
ChartStatuses == {success, failed, waiting_for_resource, <<>>}

ChartEntries ==
    {add_test_summary_to_pipeline(parse_pipelines(<<[status |-> JStr(st)]>>)[1],
                                  [ZeroTestSummary EXCEPT !.total_count = JInt(v)]) :
        st \in ChartStatuses, v \in 0..MaxValue}

Histories == SeqsUpTo(ChartEntries, MaxChartLen)

HistoryCounts == {1, 2}

ChartInit ==
    /\ chart_input \in Histories
    /\ history_count \in HistoryCounts
    /\ chart_output = <<>>
    /\ section = <<>>
    /\ cphase = "input"
    /\ SpliceOff
    /\ RunOff
    /\ DurationOff
    /\ CallOff

RenderChart ==
    /\ cphase = "input"
    /\ chart_output' = generate_ascii_bar_chart(chart_input)
    /\ cphase' = "charted"
    /\ UNCHANGED <<chart_input, section, history_count, durationVars, spliceVars, runVars, localVars, callVars>>

\* The call main() makes: the list as the source returned it, uncapped.
RenderSection ==
    /\ cphase = "charted"
    /\ section' = generate_pipeline_section(JStr(<<"a">>), parse_pipeline_info(PipelineA), ZeroTestSummary, chart_input, "2024-01-15 10:00:00")
    /\ cphase' = "rendered"
    /\ UNCHANGED <<chart_input, chart_output, history_count, durationVars, spliceVars, runVars, localVars, callVars>>

ChartNext == RenderChart \/ RenderSection

ChartSpec == ChartInit /\ [][ChartNext]_vars

(***************************************************************************)
(* Vocabulary of the chart claims, stated on the rendered text alone.      *)
(***************************************************************************)
Glyphs == {"ok-glyph", "cross-glyph", "neutral-glyph"}

\* A chart line starts where a status glyph stands.
LineStarts(c) == {i \in 1..Len(c) : c[i] \in Glyphs}

LineCount(c) == Cardinality(LineStarts(c))

\* The n-th smallest element of S.
Nth(S, n) == CHOOSE x \in S : Cardinality({y \in S : y < x}) = n - 1

\* The n-th chart line of c, without the newline that ends it; the last
\* line runs to the last bar delimiter and the value after it.
LineOf(c, n) ==
    LET first == Nth(LineStarts(c), n)
        stop == Min({i \in first..Len(c) : c[i] = "| "})
    IN  SubSeq(c, first, stop + 1)

BarLengthOf(line) == Cardinality({i \in 1..Len(line) : line[i] = "bar-glyph"})

\* Column of the delimiter that opens the bar (every token before it is one
\* character wide).
BarColumnOf(line) == Min({i \in 1..Len(line) : line[i] = " |"})

ValueOf(d) == d.test_counts.total_count[2]

MaxValueOf(entries) == Max({ValueOf(entries[i]) : i \in 1..Len(entries)})

\* Line n of chart c is the line of entry d: its glyph tells d's status and
\* it ends with d's value.
LineShows(c, n, d) ==
    LET line == LineOf(c, n)
    IN  /\ (line[1] = "ok-glyph") <=> (d.status = JStr(success))
        /\ (line[1] = "cross-glyph") <=> (d.status = JStr(failed))
        /\ (line[1] = "neutral-glyph") <=> (d.status \notin {JStr(success), JStr(failed)})
        /\ line[Len(line) - 1] = "| "
        /\ line[Len(line)] = ToString(ValueOf(d))

\* C14: the chart inside a rendered section has min(length, cap) lines, the
\* cap being the configured history count, and they show the first entries
\* of the history list in order.
C14_ChartWithinCap ==
    cphase = "rendered" =>
        LET n == Min({Len(chart_input), history_count})
        IN  /\ LineCount(section) = n
            /\ \A i \in 1..n : LineShows(section, i, chart_input[i])

\* C15: the chart of the empty list is the one line "No data available"; the
\* chart of a non-empty list has one line per entry, in input order, lines
\* separated by single newlines, each line starting with the glyph of the
\* entry's status and ending with the entry's value.
C15_ChartShape ==
    cphase # "input" =>
        IF chart_input = <<>>
        THEN chart_output = <<"No data available">>
        ELSE /\ LineCount(chart_output) = Len(chart_input)
             /\ chart_output[1] \in Glyphs
             /\ Cardinality({k \in 1..Len(chart_output) : chart_output[k] = NL}) = Len(chart_input) - 1
             /\ \A k \in 1..Len(chart_output) :
                   chart_output[k] = NL =>
                       /\ k > 2 /\ k < Len(chart_output)
                       /\ chart_output[k - 2] = "| "
                       /\ chart_output[k + 1] \in Glyphs
             /\ chart_output[Len(chart_output) - 1] = "| "
             /\ \A i \in 1..Len(chart_input) : LineShows(chart_output, i, chart_input[i])

C15_Witness ==
    /\ cphase = "charted"
    /\ Len(chart_input) = 3
    /\ chart_input[1].status = JStr(success) /\ ValueOf(chart_input[1]) = 3
    /\ chart_input[2].status = JStr(failed) /\ ValueOf(chart_input[2]) = 1
    /\ chart_input[3].status = JStr(waiting_for_resource) /\ ValueOf(chart_input[3]) = 0
    /\ LineOf(chart_output, 2) =
         <<"cross-glyph", " ", "f", "a", "i", "l", "e", "d", " ", " ", " ", " ", " |">>
           \o Repeat("bar-glyph", 6) \o <<"| ", "1">>

StatusFieldWidth == 10

\* C16: in every chart line the status field is ten characters wide, so the
\* delimiter that opens the bar stands in the same column (after the glyph, a
\* blank and the field) whatever the status.
C16_StatusFieldFixedWidth ==
    (cphase # "input" /\ chart_input # <<>>) =>
        \A i \in 1..Len(chart_input) :
            BarColumnOf(LineOf(chart_output, i)) = 2 + StatusFieldWidth + 1

\* C17: a chart of entries whose values are all 0 is rendered without error:
\* it has a line per entry, every bar is empty (the two delimiters touch) and
\* every line ends with the value 0.
C17_AllZeroChart ==
    (cphase # "input" /\ chart_input # <<>> /\ MaxValueOf(chart_input) = 0) =>
        /\ LineCount(chart_output) = Len(chart_input)
        /\ \A i \in 1..Len(chart_input) :
              LET line == LineOf(chart_output, i)
              IN  /\ BarLengthOf(line) = 0
                  /\ line[Len(line) - 2] = " |"
                  /\ line[Len(line) - 1] = "| "
                  /\ line[Len(line)] = "0"

C17_Witness ==
    /\ cphase = "charted"
    /\ Len(chart_input) = 2
    /\ MaxValueOf(chart_input) = 0
    /\ chart_input[1].status = JStr(success)
    /\ chart_output =
         <<"ok-glyph", " ", "s", "u", "c", "c", "e", "s", "s", " ", " ", " ", " |", "| ", "0", NL>>
           \o LineOf(chart_output, 2)

\* C18: with a positive maximum the bar of an entry is floor(20 * value / max)
\* glyphs long, max being the largest value of the charted list: between 0
\* and 20, 20 for an entry holding the maximum, and equal for equal values.
C18_BarLengthTruncates ==
    (cphase # "input" /\ chart_input # <<>> /\ MaxValueOf(chart_input) > 0) =>
        \A i \in 1..Len(chart_input) :
            LET b == BarLengthOf(LineOf(chart_output, i))
                v == ValueOf(chart_input[i])
                m == MaxValueOf(chart_input)
            IN  /\ b * m <= 20 * v
                /\ 20 * v < (b + 1) * m
                /\ b \in 0..20
                /\ (v = m) => (b = 20)
                /\ \A j \in 1..Len(chart_input) :
                      ValueOf(chart_input[j]) = v => BarLengthOf(LineOf(chart_output, j)) = b

C18_Witness ==
    /\ cphase = "charted"
    /\ Len(chart_input) = 3
    /\ ValueOf(chart_input[1]) = 2 /\ ValueOf(chart_input[2]) = 3 /\ ValueOf(chart_input[3]) = 2
    /\ BarLengthOf(LineOf(chart_output, 1)) = 13
    /\ BarLengthOf(LineOf(chart_output, 2)) = 20
    /\ BarLengthOf(LineOf(chart_output, 3)) = 13

\* C19: within one chart an entry with a smaller value never has a longer
\* bar.
C19_BarLengthMonotone ==
    (cphase # "input" /\ chart_input # <<>>) =>
        \A i, j \in 1..Len(chart_input) :
            ValueOf(chart_input[i]) < ValueOf(chart_input[j]) =>
                BarLengthOf(LineOf(chart_output, i)) <= BarLengthOf(LineOf(chart_output, j))

C19_Witness ==
    /\ cphase = "charted"
    /\ Len(chart_input) = 3
    /\ ValueOf(chart_input[1]) = 1 /\ ValueOf(chart_input[2]) = 0 /\ ValueOf(chart_input[3]) = 3
    /\ BarLengthOf(LineOf(chart_output, 1)) = 6
    /\ BarLengthOf(LineOf(chart_output, 2)) = 0
    /\ BarLengthOf(LineOf(chart_output, 3)) = 20

(***************************************************************************)
(* DurationSpec: format_duration called on None and on every number of     *)
(* seconds up to MaxSeconds.                                               *)
(***************************************************************************)
Durations == {None} \cup {JInt(n) : n \in 0..MaxSeconds}

DurationInit ==
    /\ duration_input \in Durations
    /\ formatted = ""
    /\ dphase = "input"
    /\ history_count = 0
    /\ SpliceOff
    /\ RunOff
    /\ ChartOff
    /\ CallOff

FormatDuration ==
    /\ dphase = "input"
    /\ formatted' = format_duration(duration_input)
    /\ dphase' = "formatted"
    /\ UNCHANGED <<duration_input, history_count, chartVars, spliceVars, runVars, localVars, callVars>>

DurationNext == FormatDuration

DurationSpec == DurationInit /\ [][DurationNext]_vars

\* C20: None is formatted as "N/A"; s seconds, s >= 0, as "<s>s" below one
\* minute and else as "<m>m <r>s" with m >= 1, r in 0..59 and m*60 + r = s.
C20_FormatDuration ==
    dphase = "formatted" =>
        IF duration_input = None THEN formatted = "N/A"
        ELSE LET s == duration_input[2]
             IN  /\ s < 60 => formatted = ToString(s) \o "s"
                 /\ s >= 60 =>
                       \E m \in 1..s, r \in 0..59 :
                           /\ m * 60 + r = s
                           /\ formatted = ToString(m) \o "m " \o ToString(r) \o "s"
                 /\ s = 0 => formatted = "0s"
                 /\ s = 45 => formatted = "45s"
                 /\ s = 150 => formatted = "2m 30s"
                 /\ s = 3661 => formatted = "61m 1s"

C20_Witness ==
    /\ dphase = "formatted"
    /\ duration_input = JInt(3661)
    /\ formatted = "61m 1s"

(***************************************************************************)
(* models.py called directly: the parsers on raw records, present keys     *)
(* carrying either a value of the documented type, or null, or a value of  *)
(* another type; the two enrichment functions on parsed history entries.   *)
(***************************************************************************)
MaxHistoryLen == 2

PipelineKeys ==
    {"id", "name", "status", "ref", "sha", "web_url", "created_at", "updated_at", "duration"}

\* A value of the documented type for every key of a raw pipeline record.
PipelineSample ==
    [id |-> JInt(287), name |-> JStr(<<"a">>), status |-> JStr(success),
     ref |-> JStr(<<"m">>), sha |-> JStr(<<"c">>), web_url |-> JStr(<<"u">>),
     created_at |-> JStr(<<"t">>), updated_at |-> JStr(<<"t">>), duration |-> JInt(150)]

\* Keys given a null value in some raw pipeline record.
PipelineNullKeys == {"id", "name", "duration"}

RawPipelineRecords ==
    {[k \in K |-> IF k \in N THEN None ELSE PipelineSample[k]] :
        K \in SUBSET PipelineKeys, N \in SUBSET PipelineNullKeys}

TotalKeys == {"count", "success", "failed", "skipped", "error", "time"}

TotalSample ==
    [count |-> JInt(5), success |-> JInt(3), failed |-> JInt(1),
     skipped |-> JInt(1), error |-> JInt(2), time |-> JInt(7)]

RawTotals ==
    {[k \in K |-> IF k \in N THEN None ELSE TotalSample[k]] :
        K \in SUBSET TotalKeys, N \in SUBSET {"count"}}

\* Raw test reports: no "total", a "total" map, or a "total" that is null,
\* a number or a string.
RawReports ==
    {[k \in {} |-> None]}
        \cup {[total |-> JMap(t)] : t \in RawTotals}
        \cup {[total |-> v] : v \in {None, JInt(5), JStr(<<"x">>)}}

HistoryKeys == {"id", "status", "ref", "created_at", "duration", "web_url"}

HistorySample ==
    [id |-> JInt(286), status |-> JStr(failed), ref |-> JStr(<<"m">>),
     created_at |-> JStr(<<"t">>), duration |-> JInt(45), web_url |-> JStr(<<"u">>)]

RawHistoryRecords ==
    {[k \in K |-> HistorySample[k]] : K \in SUBSET HistoryKeys}
        \cup {[id |-> JInt(285), status |-> None]}

RawHistoryLists == SeqsUpTo(RawHistoryRecords, MaxHistoryLen)

\* Parsed history entries, plain and already carrying test counts.
Summaries == {parse_test_summary([total |-> JMap(t)]) : t \in {[k \in K |-> TotalSample[k]] : K \in {{}, {"count"}, TotalKeys}}}

PlainEntries == {parse_pipelines(<<r>>)[1] : r \in RawHistoryRecords}

Entries ==
    PlainEntries \cup {add_test_summary_to_pipeline(e, parse_test_summary([total |-> JMap(TotalSample)])) : e \in PlainEntries}

Versions == {JStr(<<"N", "/", "A">>), JStr(<<"v", "1">>)}

Urls == {JStr(<<>>), JStr(<<"u">>)}

ModelsFunctions ==
    {"parse_pipeline_info", "parse_test_summary", "parse_pipelines",
     "add_test_summary_to_pipeline", "add_version_and_url_to_pipeline"}

ModelsArgs(f) ==
    CASE f = "parse_pipeline_info" -> {[pipeline |-> r] : r \in RawPipelineRecords}
      [] f = "parse_test_summary" -> {[test_summary |-> r] : r \in RawReports}
      [] f = "parse_pipelines" -> {[pipelines |-> l] : l \in RawHistoryLists}
      [] f = "add_test_summary_to_pipeline" ->
            {[pipeline |-> e, test_summary |-> t] : e \in Entries, t \in Summaries}
      [] OTHER -> {[pipeline |-> e, version |-> v, url |-> u] : e \in Entries, v \in Versions, u \in Urls}

ModelsInit ==
    /\ SpliceOff
    /\ RunOff
    /\ history_count = 0
    /\ ChartOff
    /\ DurationOff
    /\ fn \in ModelsFunctions
    /\ fn_args \in ModelsArgs(fn)
    /\ fn_result = <<>>
    /\ fn_phase = "input"

Returns(value) ==
    /\ fn_result' = [raised |-> "", value |-> value]
    /\ fn_phase' = "returned"
    /\ UNCHANGED <<fn, fn_args, history_count, renderVars, spliceVars, runVars, localVars>>

Raises(exception) ==
    /\ fn_result' = [raised |-> exception, value |-> None]
    /\ fn_phase' = "raised"
    /\ UNCHANGED <<fn, fn_args, history_count, renderVars, spliceVars, runVars, localVars>>

ParsePipelineInfo ==
    /\ fn_phase = "input"
    /\ fn = "parse_pipeline_info"
    /\ Returns(parse_pipeline_info(fn_args.pipeline))

ParseTestSummaryOk ==
    /\ fn_phase = "input"
    /\ fn = "parse_test_summary"
    /\ ~parse_test_summary_raises(fn_args.test_summary)
    /\ Returns(parse_test_summary(fn_args.test_summary))

\* `totals.get` on a value that is not a dict.
ParseTestSummaryRaise ==
    /\ fn_phase = "input"
    /\ fn = "parse_test_summary"
    /\ parse_test_summary_raises(fn_args.test_summary)
    /\ Raises("AttributeError")

ParsePipelines ==
    /\ fn_phase = "input"
    /\ fn = "parse_pipelines"
    /\ Returns(parse_pipelines(fn_args.pipelines))

AddTestSummaryToPipeline ==
    /\ fn_phase = "input"
    /\ fn = "add_test_summary_to_pipeline"
    /\ Returns(add_test_summary_to_pipeline(fn_args.pipeline, fn_args.test_summary))

AddVersionAndUrlToPipeline ==
    /\ fn_phase = "input"
    /\ fn = "add_version_and_url_to_pipeline"
    /\ Returns(add_version_and_url_to_pipeline(fn_args.pipeline, fn_args.version, fn_args.url))

ModelsNext ==
    \/ ParsePipelineInfo
    \/ ParseTestSummaryOk
    \/ ParseTestSummaryRaise
    \/ ParsePipelines
    \/ AddTestSummaryToPipeline
    \/ AddVersionAndUrlToPipeline

ModelsSpec == ModelsInit /\ [][ModelsNext]_vars

\* Every value present in a raw record is of the documented type: it is the
\* sample value of its key.
WellTyped(raw, sample) == \A k \in DOMAIN raw : raw[k] = sample[k]

WellFormedReport(raw) ==
    "total" \in DOMAIN raw => IsMap(raw.total) /\ WellTyped(raw.total[2], TotalSample)

\* The field of a parsed PipelineInfo that a key of the raw record fills.
InfoField(info, k) ==
    CASE k = "id" -> info.id
      [] k = "name" -> info.name
      [] k = "status" -> info.status
      [] k = "ref" -> info.ref
      [] k = "sha" -> info.sha
      [] k = "web_url" -> info.web_url
      [] k = "created_at" -> info.metadata.created_at
      [] k = "updated_at" -> info.metadata.updated_at
      [] OTHER -> info.metadata.duration

InfoDefault(k) ==
    CASE k = "id" -> JInt(0)
      [] k = "name" -> JStr(unknown)
      [] k \in {"status", "ref", "sha", "web_url"} -> JStr(<<>>)
      [] OTHER -> None

SummaryField(summary, k) ==
    CASE k = "count" -> summary.total_count
      [] k = "success" -> summary.success_count
      [] k = "failed" -> summary.failed_count
      [] k = "skipped" -> summary.skipped_count
      [] k = "error" -> summary.error_count
      [] OTHER -> summary.total_time

EntryField(entry, k) ==
    CASE k = "id" -> entry.id
      [] k = "status" -> entry.status
      [] k = "ref" -> entry.ref
      [] k = "created_at" -> entry.created_at
      [] k = "duration" -> entry.duration
      [] OTHER -> entry.web_url

EntryDefault(k) ==
    CASE k = "id" -> JInt(0)
      [] k \in {"status", "ref"} -> JStr(<<>>)
      [] OTHER -> None

AllCountsZero(counts) ==
    /\ counts.total_count = JInt(0)
    /\ counts.success_count = JInt(0)
    /\ counts.failed_count = JInt(0)
    /\ counts.skipped_count = JInt(0)

\* C21: on raw records whose present values are of the documented type, with
\* any subset of the known keys present, the three parsers return (no
\* exception), a present key's value is the parsed field's value, an absent
\* key gives the default (id 0, name "unknown", status/ref/sha/web_url "",
\* timestamps and duration None, counts and time 0; a history entry has
\* version "N/A", url "", zero test counts, and None for an absent web_url),
\* and parse_pipelines returns one entry per record, in order.
C21_ParsersCarryOrDefault ==
    /\ (/\ fn = "parse_pipeline_info"
        /\ WellTyped(fn_args.pipeline, PipelineSample)
        /\ fn_phase # "input")
       => /\ fn_phase = "returned"
          /\ \A k \in PipelineKeys :
                InfoField(fn_result.value, k) =
                    IF k \in DOMAIN fn_args.pipeline THEN fn_args.pipeline[k] ELSE InfoDefault(k)
    /\ (/\ fn = "parse_test_summary"
        /\ WellFormedReport(fn_args.test_summary)
        /\ fn_phase # "input")
       => /\ fn_phase = "returned"
          /\ \A k \in TotalKeys :
                SummaryField(fn_result.value, k) =
                    IF /\ "total" \in DOMAIN fn_args.test_summary
                       /\ k \in DOMAIN fn_args.test_summary.total[2]
                    THEN fn_args.test_summary.total[2][k]
                    ELSE JInt(0)
    /\ (/\ fn = "parse_pipelines"
        /\ \A i \in 1..Len(fn_args.pipelines) : WellTyped(fn_args.pipelines[i], HistorySample)
        /\ fn_phase # "input")
       => /\ fn_phase = "returned"
          /\ Len(fn_result.value) = Len(fn_args.pipelines)
          /\ \A i \in 1..Len(fn_args.pipelines) :
                /\ \A k \in HistoryKeys :
                      EntryField(fn_result.value[i], k) =
                          IF k \in DOMAIN fn_args.pipelines[i]
                          THEN fn_args.pipelines[i][k]
                          ELSE EntryDefault(k)
                /\ fn_result.value[i].version = JStr(<<"N", "/", "A">>)
                /\ fn_result.value[i].url = JStr(<<>>)
                /\ AllCountsZero(fn_result.value[i].test_counts)

\* A two-record history whose first record has only an id and whose second
\* has only a status has been parsed, in that order.
C21_Witness ==
    /\ fn = "parse_pipelines"
    /\ fn_phase = "returned"
    /\ fn_args.pipelines = <<[id |-> JInt(286)], [status |-> JStr(failed)]>>
    /\ fn_result.value[1].id = JInt(286)
    /\ fn_result.value[1].status = JStr(<<>>)
    /\ fn_result.value[2].id = JInt(0)
    /\ fn_result.value[2].status = JStr(failed)

\* C22: on every raw record, null and wrongly typed values included, the
\* parsers return (no exception), and a key whose value is null gives the
\* parsed field its documented default.
C22_ParsersTotal ==
    fn \in {"parse_pipeline_info", "parse_test_summary", "parse_pipelines"} =>
        /\ fn_phase # "raised"
        /\ (fn_phase = "returned" /\ fn = "parse_pipeline_info") =>
              \A k \in DOMAIN fn_args.pipeline :
                  fn_args.pipeline[k] = None => InfoField(fn_result.value, k) = InfoDefault(k)

\* The fields of a history entry other than the given ones.
EntryFields ==
    {"id", "status", "ref", "version", "url", "created_at", "duration", "web_url", "test_counts"}

SameExcept(e1, e2, fields) == \A f \in EntryFields \ fields : e1[f] = e2[f]

\* C25: a call of add_test_summary_to_pipeline returns an entry equal to its
\* argument in every field but test_counts, whose four counts are those of
\* the summary; a call of add_version_and_url_to_pipeline returns an entry
\* equal to its argument in every field but version and url, which are the
\* arguments given (the test counts are kept); the entry passed in is the
\* same after the call as before.
C25_EnrichmentPure ==
    [][/\ (fn = "add_test_summary_to_pipeline" /\ fn_phase = "input") =>
            /\ fn_phase' = "returned"
            /\ fn_args'.pipeline = fn_args.pipeline
            /\ SameExcept(fn_result'.value, fn_args.pipeline, {"test_counts"})
            /\ fn_result'.value.test_counts.total_count = fn_args.test_summary.total_count
            /\ fn_result'.value.test_counts.success_count = fn_args.test_summary.success_count
            /\ fn_result'.value.test_counts.failed_count = fn_args.test_summary.failed_count
            /\ fn_result'.value.test_counts.skipped_count = fn_args.test_summary.skipped_count
       /\ (fn = "add_version_and_url_to_pipeline" /\ fn_phase = "input") =>
            /\ fn_phase' = "returned"
            /\ fn_args'.pipeline = fn_args.pipeline
            /\ SameExcept(fn_result'.value, fn_args.pipeline, {"version", "url"})
            /\ fn_result'.value.version = fn_args.version
            /\ fn_result'.value.url = fn_args.url]_vars

\* An entry that carries test counts has been given a version and a url.
C25_Witness ==
    /\ fn = "add_version_and_url_to_pipeline"
    /\ fn_phase = "returned"
    /\ fn_args.pipeline.test_counts.total_count = JInt(5)
    /\ fn_args.pipeline.version = JStr(<<"N", "/", "A">>)
    /\ fn_args.version = JStr(<<"v", "1">>)
    /\ fn_args.url = JStr(<<"u">>)
    /\ fn_result.value.version = JStr(<<"v", "1">>)
    /\ fn_result.value.test_counts.total_count = JInt(5)

(***************************************************************************)
(* parse_ref_with_regex called directly, on every ref up to MaxRefLen      *)
(* characters and on each of the patterns.                                 *)
(***************************************************************************)
MaxRefLen == 5

RefAlphabet == {"a", " ", "-", "v", "1", NL}

Refs == SeqsUpTo(RefAlphabet, MaxRefLen)

Patterns ==
    {PatternWithName, PatternWithoutName, PatternVersionFirst, PatternNameOnly,
     PatternUnanchored, PatternOptionalGroups, PatternVersionOnly}

RefInit ==
    /\ SpliceOff
    /\ RunOff
    /\ history_count = 0
    /\ ChartOff
    /\ DurationOff
    /\ fn = "parse_ref_with_regex"
    /\ fn_args \in [ref : Refs, regex_pattern : Patterns]
    /\ fn_result = <<>>
    /\ fn_phase = "input"

ParseRefOk ==
    /\ fn_phase = "input"
    /\ fn = "parse_ref_with_regex"
    /\ ~parse_ref_with_regex_raises(fn_args.regex_pattern)
    /\ Returns(parse_ref_with_regex(fn_args.ref, fn_args.regex_pattern))

\* The ValueError is raised only after the match, and only when the ref
\* matched; a ref that does not match gets the no-match tuple.
ParseRefRaise_after_match ==
    /\ fn_phase = "input"
    /\ fn = "parse_ref_with_regex"
    /\ parse_ref_with_regex_raises(fn_args.regex_pattern)
    /\ IF match(fn_args.regex_pattern, fn_args.ref).ok
       THEN Raises("ValueError")
       ELSE Returns(<<JStr(<<>>), JStr(<<"N", "/", "A">>), FALSE>>)

ParseRefRaise ==
    /\ fn_phase = "input"
    /\ fn = "parse_ref_with_regex"
    /\ parse_ref_with_regex_raises(fn_args.regex_pattern)
    /\ Raises("ValueError")

RefNext == ParseRefOk \/ ParseRefRaise

RefSpec == RefInit /\ [][RefNext]_vars

\* C23: for a pattern with a `name` group the call returns; a ref that does
\* not match at its start gives ("", "N/A", False); a ref that matches gives
\* matched True, a name that is text, and a version that is text, never
\* empty, and "N/A" when the pattern has no `version` group.  The refs of
\* the tests give the results of the tests.
C23_ParseRefTotal ==
    (fn = "parse_ref_with_regex" /\ "name" \in fn_args.regex_pattern.groupindex /\ fn_phase # "input") =>
        /\ fn_phase = "returned"
        /\ fn_result.value[3] = match(fn_args.regex_pattern, fn_args.ref).ok
        /\ ~fn_result.value[3] =>
              fn_result.value = <<JStr(<<>>), JStr(<<"N", "/", "A">>), FALSE>>
        /\ fn_result.value[3] =>
              /\ IsStr(fn_result.value[1])
              /\ IsStr(fn_result.value[2])
              /\ fn_result.value[2] # JStr(<<>>)
              /\ "version" \notin fn_args.regex_pattern.groupindex =>
                    fn_result.value[2] = JStr(<<"N", "/", "A">>)
        /\ (fn_args.regex_pattern = PatternWithName /\ fn_args.ref = <<"a", " ", "-", " ", "v">>) =>
              fn_result.value = <<JStr(<<"a">>), JStr(<<"v">>), TRUE>>
        /\ (fn_args.regex_pattern = PatternWithName /\ fn_args.ref = <<"a", " ", "-", " ">>) =>
              fn_result.value = <<JStr(<<"a">>), JStr(<<"N", "/", "A">>), TRUE>>
        /\ (fn_args.regex_pattern = PatternWithName /\ fn_args.ref = <<"a", "-", "v">>) =>
              ~fn_result.value[3]
        /\ (fn_args.regex_pattern = PatternVersionFirst /\ fn_args.ref = <<"v", "1", "-", "a">>) =>
              fn_result.value = <<JStr(<<"a">>), JStr(<<"v", "1">>), TRUE>>
        /\ (fn_args.regex_pattern = PatternNameOnly /\ fn_args.ref = <<"a", "-", "v">>) =>
              fn_result.value = <<JStr(<<"a", "-", "v">>), JStr(<<"N", "/", "A">>), TRUE>>

\* C24: for a pattern without a `name` group the call raises ValueError for
\* every ref, matching or not, and returns no tuple.
C24_NoNameGroupRaises ==
    (fn = "parse_ref_with_regex" /\ "name" \notin fn_args.regex_pattern.groupindex) =>
        /\ fn_phase # "returned"
        /\ fn_phase = "raised" => fn_result.raised = "ValueError"

\* The call was made with a pattern that has only a `version` group and a
\* ref it does not match, and has raised.
C24_Witness ==
    /\ fn = "parse_ref_with_regex"
    /\ fn_phase = "raised"
    /\ fn_args.regex_pattern = PatternVersionOnly
    /\ fn_args.ref = <<"a">>
    /\ ~match(fn_args.regex_pattern, fn_args.ref).ok

(***************************************************************************)
(* The value of one option (config.py, main.py 175-180): the command line, *)
(* the configuration file, the environment and the default.                *)
(***************************************************************************)
Options ==
    {"gitlab_url", "gitlab_token", "confluence_url", "confluence_email",
     "confluence_token", "history_count"}

\* nested_keys, env_key and default of each get_* function.
OptionPath ==
    [gitlab_url |-> <<"gitlab", "url">>, gitlab_token |-> <<"gitlab", "token">>,
     confluence_url |-> <<"confluence", "url">>, confluence_email |-> <<"confluence", "email">>,
     confluence_token |-> <<"confluence", "token">>, history_count |-> <<"options", "history_count">>]

OptionEnvKey ==
    [gitlab_url |-> "GITLAB_URL", gitlab_token |-> "GITLAB_TOKEN",
     confluence_url |-> "CONFLUENCE_URL", confluence_email |-> "CONFLUENCE_EMAIL",
     confluence_token |-> "CONFLUENCE_TOKEN", history_count |-> "HISTORY_COUNT"]

OptionDefault ==
    [gitlab_url |-> JStr(<<"https://gitlab.example.com">>), gitlab_token |-> JStr(<<"changeme">>),
     confluence_url |-> JStr(<<"https://confluence.example.com">>),
     confluence_email |-> JStr(<<"changeme">>), confluence_token |-> JStr(<<"changeme">>),
     history_count |-> JInt(10)]

\* The loop over nested_keys: one .get per key while the value is a dict.
RECURSIVE Navigate(_, _)
Navigate(nested_config, keys) ==
    IF keys = <<>> THEN nested_config
    ELSE IF IsMap(nested_config)
    THEN Navigate(Get(nested_config[2], Head(keys), None), Tail(keys))
    ELSE nested_config

\* environ is os.environ: a function from the names that are set to strings.
get_config_value(config, environ, env_key, default, nested_keys) ==
    LET nested_config == Navigate(JMap(config), nested_keys)
    IN  IF nested_config # None THEN nested_config
        ELSE IF env_key \in DOMAIN environ THEN JStr(environ[env_key])
        ELSE default

Digits == {"0", "1", "2", "3", "4", "5", "6", "7", "8", "9"}

DigitValue(c) == CHOOSE n \in 0..9 : ToString(n) = c

\* int(value) raises ValueError or TypeError: the value is neither an int
\* nor a string of one digit (strings here have at most one character).
int_raises(value) ==
    ~(IsInt(value) \/ (IsStr(value) /\ Len(value[2]) = 1 /\ value[2][1] \in Digits))

int(value) == IF IsInt(value) THEN value ELSE JInt(DigitValue(value[2][1]))

\* get_gitlab_url ... get_confluence_token return the value as it is;
\* get_history_count converts it and falls back to 10.
get_option(option, config, environ) ==
    LET value == get_config_value(config, environ, OptionEnvKey[option], OptionDefault[option], OptionPath[option])
    IN  IF option # "history_count" THEN value
        ELSE IF int_raises(value) THEN JInt(10)
        ELSE int(value)

\* bool(value) of a command-line value: None, "" and 0 are false.
Truthy(value) == value \notin {None, JStr(<<>>), JInt(0)}

\* `args.x or config.get_x(file_config)`.
resolve_option(option, cli, config, environ) ==
    IF Truthy(cli) THEN cli ELSE get_option(option, config, environ)

\* What the command line gives for an option: nothing, a value, or the
\* empty string (--history-count has type=int: nothing, 3 or 0).
CliValues(option) ==
    IF option = "history_count" THEN {None, JInt(3), JInt(0)}
    ELSE {None, JStr(<<"c">>), JStr(<<>>)}

\* What the file gives at the place of an option: no section, an empty
\* section, a section with the key (a value, a null, or for the count a
\* string that is no number), or a section that is a string or null.
FileValues(option) ==
    IF option = "history_count" THEN {JInt(2), JStr(<<"x">>), None}
    ELSE {JStr(<<"f">>), None}

ConfigsFor(option) ==
    LET sec == OptionPath[option][1]
        key == OptionPath[option][2]
    IN  {[k \in {} |-> None]}
            \cup {[k \in {sec} |-> v] : v \in {JMap([j \in {} |-> None]), JStr(<<"o">>), None}}
            \cup {[k \in {sec} |-> JMap([j \in {key} |-> v])] : v \in FileValues(option)}

\* The environment: the variable of the option unset, or set to a string.
EnvironsFor(option) ==
    {[k \in {} |-> <<>>]}
        \cup {[k \in {OptionEnvKey[option]} |-> v] :
                v \in IF option = "history_count" THEN {<<"5">>, <<"x">>} ELSE {<<"e">>}}

ConfigInit ==
    /\ SpliceOff
    /\ RunOff
    /\ history_count = 0
    /\ ChartOff
    /\ DurationOff
    /\ fn \in {"get_config_value", "main"}
    /\ \E option \in Options :
          fn_args \in [option : {option}, cli : IF fn = "main" THEN CliValues(option) ELSE {None},
                       config : ConfigsFor(option), environ : EnvironsFor(option)]
    /\ fn_result = <<>>
    /\ fn_phase = "input"

GetConfigValue ==
    /\ fn_phase = "input"
    /\ fn = "get_config_value"
    /\ Returns(get_config_value(fn_args.config, fn_args.environ, OptionEnvKey[fn_args.option],
                                OptionDefault[fn_args.option], OptionPath[fn_args.option]))

ResolveOption ==
    /\ fn_phase = "input"
    /\ fn = "main"
    /\ Returns(resolve_option(fn_args.option, fn_args.cli, fn_args.config, fn_args.environ))

ConfigNext == GetConfigValue \/ ResolveOption

ConfigSpec == ConfigInit /\ [][ConfigNext]_vars

\* The value the file holds at the full key path of an option, None when
\* the section or the key is missing or the section is no mapping.
AtFullPath(config, option) ==
    LET sec == OptionPath[option][1]
        key == OptionPath[option][2]
    IN  IF sec \in DOMAIN config /\ IsMap(config[sec]) /\ key \in DOMAIN config[sec][2]
        THEN config[sec][2][key]
        ELSE None

\* The value an option has by the order command line, file, environment,
\* default; a null in the file supplies no value.
ByPrecedence(option, cli, config, environ) ==
    IF cli # None THEN cli
    ELSE IF AtFullPath(config, option) # None THEN AtFullPath(config, option)
    ELSE IF OptionEnvKey[option] \in DOMAIN environ THEN JStr(environ[OptionEnvKey[option]])
    ELSE OptionDefault[option]

\* C26: the value of every option is the command-line value when one is
\* given, else the value at the option's full key path in the file, else the
\* value of the environment variable, else the default.  (For the history
\* count the value is compared as a number, and a value that is no number
\* is left out of the comparison.)
C26_ConfigPrecedence ==
    fn_phase = "returned" =>
        LET expected == ByPrecedence(fn_args.option, fn_args.cli, fn_args.config, fn_args.environ)
        IN  IF fn = "main" /\ fn_args.option = "history_count"
            THEN int_raises(expected) \/ fn_result.value = int(expected)
            ELSE fn_result.value = expected

(***************************************************************************)
(* Runs of main(): the document over repeated runs.                        *)
(***************************************************************************)
\* The document a finished run has written.
Written == store[args.confluence_page_id].content

\* C27: a run that read a document with at most one `<h2>name</h2>` header
\* for its pipeline name and wrote the document leaves exactly one such
\* header in it; so by induction does every sequence of runs for that name.
C27_NoDuplicateSections ==
    (pc = "Done" /\ Cardinality(KeyHeaders(current_content, pipeline_name[2])) <= 1) =>
        Cardinality(KeyHeaders(Written, pipeline_name[2])) = 1

\* The section of s whose header starts at position i: the header and what
\* follows it up to the next `<h2>` or the end of s.
SectionAt(s, i) ==
    LET n == NextH2(s, i + 1)
    IN  IF n = 0 THEN From(s, i) ELSE SubSeq(s, i, n - 1)

\* t occurs in s from position i on.
OccursAt(s, i, t) == i + Len(t) - 1 <= Len(s) /\ SubSeq(s, i, i + Len(t) - 1) = t

PipelineNames == {<<"a">>, <<"b">>}

\* C28: after a run for one pipeline name has written the document, the
\* section it rendered stands in the document behind a header of that name,
\* and the one section of the other name that the run read is in the
\* document as it was read, header and body.
C28_SectionsIndependent ==
    pc = "Done" =>
        /\ \E j \in KeyHeaders(Written, pipeline_name[2]) : OccursAt(Written, j, section_content)
        /\ \A other \in PipelineNames \ {pipeline_name[2]} :
              Cardinality(KeyHeaders(current_content, other)) = 1 =>
                  /\ Cardinality(KeyHeaders(Written, other)) = 1
                  /\ \A i \in KeyHeaders(current_content, other), j \in KeyHeaders(Written, other) :
                        SectionAt(Written, j) = SectionAt(current_content, i)

\* Every section generate_pipeline_section renders for a pipeline name from
\* the records, summaries, histories and times of a run.
RenderedSections ==
    [key \in PipelineNames |->
        {generate_pipeline_section(JStr(key), parse_pipeline_info(pipeline), summary, parse_pipelines(history), now) :
            pipeline \in {r \in RawPipelines : r.name = JStr(key)},
            summary \in {ZeroTestSummary, parse_test_summary(ReportOk)},
            history \in {h \in RawHistories : ~chart_raises(parse_pipelines(h))},
            now \in Timestamps}]

\* C29: when the document a run read is a section rendered for the run's
\* pipeline name, the splice finds it and replaces all of it: the new
\* document is the newly rendered section and nothing else.
C29_RenderSpliceRoundTrip ==
    (/\ pc \in {"WriteDocument", "Done"}
     /\ pipeline_name[2] \in PipelineNames
     /\ current_content \in RenderedSections[pipeline_name[2]])
        => new_content = section_content

\* C30: every history line of the section a run rendered shows the value 0
\* and an empty bar, one line per fetched history entry (10 at most),
\* whatever the test summary of the run holds.
C30_HistoryValuesZero ==
    pc \in {"FetchDocument", "Splice", "WriteDocument", "Done"} =>
        /\ LineCount(section_content) = Min({Len(recent_pipelines), 10})
        /\ \A n \in 1..LineCount(section_content) :
              LET line == LineOf(section_content, n)
              IN  /\ BarLengthOf(line) = 0
                  /\ line[Len(line)] = "0"
        /\ pc = "Done" => \E j \in 1..Len(Written) : OccursAt(Written, j, section_content)

\* A run whose test summary counts 150 tests has written a section with two
\* history lines.
C30_Witness ==
    /\ pc = "Done"
    /\ Len(recent_pipelines) = 2
    /\ test_summary.total_count = JInt(150)
    /\ LineCount(section_content) = 2
    /\ \E j \in 1..Len(Written) : OccursAt(Written, j, section_content)

====
